---- MODULE Spec2Model ----
(***************************************************************************)
(* Governance core of eclipse-sales-platform (src/app/core/governance.py): *)
(* PolicyRule.matches, PolicyEngine, RBACManager, AuditManager and         *)
(* GovernanceSystem.                                                       *)
(*                                                                         *)
(* Python values are encoded as tuples of one-character strings whose      *)
(* first element is a type tag: <<"n">> is None, <<"b","T">> / <<"b","F">> *)
(* are True / False and <<"s", c1, ..., cn>> is the str c1...cn.  A list   *)
(* is a sequence of such values, a dict a function on its keys.            *)
(***************************************************************************)
EXTENDS Integers, Sequences, FiniteSets, TLC

VARIABLES
    mt,               \* PolicyRule.matches harness: rule, context, result
    stored_policies,  \* rows of the PolicyStorage table
    session,          \* AuditLog rows added to the db session, not yet committed
    workflows,        \* WorkflowEngine.workflows: workflow id -> its steps
    policies,         \* PolicyEngine.policies: policy type -> list of rules
    engine,           \* "new" before PolicyEngine.__init__, "ready" after
    ev,               \* result of the last evaluate_policies call
    roles,            \* Role table: the role ids
    role_permissions, \* RolePermission table: <<role_id, permission>> rows
    user_roles,       \* UserRole table: <<user_id, role_id>> rows
    permission_cache, \* RBACManager.permission_cache: user -> permissions
    cache_timestamps, \* RBACManager.cache_timestamps: user -> time cached
    now,              \* datetime.utcnow(), in minutes
    audit_logs,       \* AuditLog table, in insertion order
    approval_queue,   \* GovernanceSystem.approval_queue: id -> request
    ret,              \* the last call of the public API: what it returned
    th,               \* the threads inside approve_action: position, locals
    wf,               \* one WorkflowExecution inside _execute_workflow
    wx,               \* the executions handle_event started, and what they share
    orch              \* one call of AIOrchestrator.act

harnessVars == <<mt, stored_policies, session, workflows, engine, ev, th, wf, wx, orch>>
rbacVars == <<roles, role_permissions, user_roles, permission_cache,
              cache_timestamps>>
govVars == <<rbacVars, now, audit_logs, approval_queue, ret>>
vars == <<harnessVars, policies, govVars>>

\* ---------------------------------------------------------------- values
None == <<"n">>
PyTrue == <<"b", "T">>
PyFalse == <<"b", "F">>

s_lead == <<"s", "l", "e", "a", "d">>
s_read == <<"s", "r", "e", "a", "d">>
s_write == <<"s", "w", "r", "i", "t", "e">>
s_email == <<"s", "e", "m", "a", "i", "l">>
s_send == <<"s", "s", "e", "n", "d">>
s_delete == <<"s", "d", "e", "l", "e", "t", "e">>
s_execute == <<"s", "e", "x", "e", "c", "u", "t", "e">>
s_schedule == <<"s", "s", "c", "h", "e", "d", "u", "l", "e">>
s_ai_tool == <<"s", "a", "i", "_", "t", "o", "o", "l">>
s_account == <<"s", "a", "c", "c", "o", "u", "n", "t">>
s_login == <<"s", "l", "o", "g", "i", "n">>
s_opportunity ==
    <<"s", "o", "p", "p", "o", "r", "t", "u", "n", "i", "t", "y">>
s_approve == <<"s", "a", "p", "p", "r", "o", "v", "e">>
s_ai_decision ==
    <<"s", "a", "i", "_", "d", "e", "c", "i", "s", "i", "o", "n">>
s_meeting == <<"s", "m", "e", "e", "t", "i", "n", "g">>
s_approve_action == <<"s", "a", "p", "p", "r", "o", "v", "e", "_",
                      "a", "c", "t", "i", "o", "n">>
s_deny_action ==
    <<"s", "d", "e", "n", "y", "_", "a", "c", "t", "i", "o", "n">>
s_company_com == <<"s", "c", "o", "m", "p", "a", "n", "y", ".", "c", "o", "m">>
s_gmail_com == <<"s", "g", "m", "a", "i", "l", ".", "c", "o", "m">>

\* a Python list of items; None is <<"n">>, a bool <<"b", _>>, a str
\* <<"s", characters>>
PyList(items) == <<"l">> \o items
IsNone(value) == value[1] = "n"
\* bool(value): None, False, '' and [] are false
Truthy(value) ==
    value \notin {None, PyFalse, <<"s">>, <<"l">>}
Items(list) == Tail(list)

\* a == b for two values
PyEq(a, b) == a[1] = b[1] /\ a = b

\* ", ".join(texts)
RECURSIVE JoinComma(_)
JoinComma(texts) ==
    IF texts = <<>> THEN <<>>
    ELSE IF Len(texts) = 1 THEN texts[1]
    ELSE texts[1] \o <<",", " ">> \o JoinComma(Tail(texts))

\* the characters of code points 1 to 127, in code point order (the grave
\* accent, 96, cannot be written in a string here: its place is held by "").
\* A character outside this table has no code, no category and no repr here.
ReChars ==
    <<"", "", "", "", "", "", "", "", "\t", "\n", "", "\f", "\r",
       "", "", "", "", "", "", "", "", "", "", "", "", "",
       "", "", "", "", "", " ", "!", "\"", "#", "$", "%", "&", "'",
       "(", ")", "*", "+", ",", "-", ".", "/", "0", "1", "2", "3", "4",
       "5", "6", "7", "8", "9", ":", ";", "<", "=", ">", "?", "@", "A",
       "B", "C", "D", "E", "F", "G", "H", "I", "J", "K", "L", "M", "N",
       "O", "P", "Q", "R", "S", "T", "U", "V", "W", "X", "Y", "Z", "[",
       "\\", "]", "^", "_", "", "a", "b", "c", "d", "e", "f", "g", "h",
       "i", "j", "k", "l", "m", "n", "o", "p", "q", "r", "s", "t", "u",
       "v", "w", "x", "y", "z", "{", "|", "}", "~", "" >>
\* ord(c)
Ord(c) == CHOOSE i \in DOMAIN ReChars : ReChars[i] = c
\* the characters str.isprintable() accepts, and the others
RePrintable == {ReChars[i] : i \in 32..126} \ {""}
ReControls == {ReChars[i] : i \in (1..31) \cup {127}}
HexDigits == <<"0", "1", "2", "3", "4", "5", "6", "7", "8", "9", "a", "b", "c", "d", "e", "f">>

\* the text between the quotes of repr(str) for one character: the quote
\* mark and the backslash get a backslash, \n \t \r their short escape, any
\* other character that is not printable its \xNN escape
ReprChar(c, quote) ==
    CASE c = "\\" -> <<"\\", "\\">>
      [] c = "\n" -> <<"\\", "n">>
      [] c = "\t" -> <<"\\", "t">>
      [] c = "\r" -> <<"\\", "r">>
      [] c = quote -> <<"\\", c>>
      [] c \in ReControls \ {"\n", "\t", "\r"} -> <<"\\", "x", HexDigits[(Ord(c) \div 16) + 1], HexDigits[(Ord(c) % 16) + 1]>>
      [] c \in RePrintable \ {"\\", quote} -> <<c>>

RECURSIVE ReprChars(_, _)
ReprChars(chars, quote) ==
    IF chars = <<>> THEN <<>>
    ELSE ReprChar(Head(chars), quote) \o ReprChars(Tail(chars), quote)

\* repr(v): a str in quotes (double quotes when the text holds ' and no "),
\* a list in brackets
RECURSIVE Repr(_)
Repr(v) ==
    IF v[1] = "s"
        THEN LET held == {Tail(v)[i] : i \in DOMAIN Tail(v)}
                 quote == IF "'" \in held /\ "\"" \notin held
                          THEN "\"" ELSE "'"
             IN  <<quote>> \o ReprChars(Tail(v), quote) \o <<quote>>
    ELSE IF v[1] = "l"
        THEN <<"[">> \o JoinComma([i \in DOMAIN Items(v) |->
                                      Repr(Items(v)[i])]) \o <<"]">>
    ELSE IF v = None THEN <<"N", "o", "n", "e">>
    ELSE IF v = PyTrue THEN <<"T", "r", "u", "e">>
    ELSE <<"F", "a", "l", "s", "e">>

\* str(v): the text Python's str() produces for a value
Str(v) == IF v[1] = "s" THEN Tail(v) ELSE Repr(v)

\* dict.get(key) with the default None
Get(d, k) == IF k \in DOMAIN d THEN d[k] ELSE None

\* x in list
InList(x, l) == \E i \in DOMAIN l : PyEq(l[i], x)

\* needle in haystack, both texts (str.__contains__)
IsSubstring(needle, hay) ==
    \E i \in 0..(Len(hay) - Len(needle)) :
        \A j \in 1..Len(needle) : hay[i + j] = needle[j]

\* ---- re.match(pattern, string), as re/_parser.py parses a pattern and the
\* ---- matcher runs it from the start of the string
\* SPECIAL_CHARS of the parser
ReSpecial == {".", "\\", "[", "{", "(", ")", "*", "+", "?", "^", "$", "|"}
ReDigits == {"0", "1", "2", "3", "4", "5", "6", "7", "8", "9"}
ReLetters == {ReChars[i] : i \in (65..90) \cup (97..122)}
\* what a parsing step gives: a node and the next index, an error (re.error)
\* or a construct this model does not carry
ReOk(n, i) == [s |-> "ok", n |-> n, i |-> i]
ReError == [s |-> "error"]
ReUnsupported == [s |-> "unsupported"]
ReLiteral(c) == [t |-> "lit", c |-> c]
\* _escape and _class_escape: the node of a backslash followed by e
ReEscape(e, in_class) ==
    IF e \in {"d", "D", "s", "S", "w", "W"} THEN ReOk([t |-> "cat", c |-> e], 0)
    ELSE IF e \in {"A", "Z", "B"} THEN (IF in_class THEN ReError ELSE ReOk([t |-> "at", at |-> e], 0))
    ELSE IF e = "b" THEN (IF in_class THEN ReOk(ReLiteral(ReChars[8]), 0) ELSE ReOk([t |-> "at", at |-> e], 0))
    ELSE IF e = "n" THEN ReOk(ReLiteral("\n"), 0)
    ELSE IF e = "t" THEN ReOk(ReLiteral("\t"), 0)
    ELSE IF e = "r" THEN ReOk(ReLiteral("\r"), 0)
    ELSE IF e = "f" THEN ReOk(ReLiteral("\f"), 0)
    ELSE IF e = "a" THEN ReOk(ReLiteral(ReChars[7]), 0)
    ELSE IF e = "v" THEN ReOk(ReLiteral(ReChars[11]), 0)
    ELSE IF e \in {"x", "u", "U", "N"} THEN ReUnsupported
    ELSE IF e \in ReDigits THEN (IF in_class /\ e \in {"8", "9"} THEN ReError ELSE ReUnsupported)
    ELSE IF e \in ReLetters THEN ReError
    ELSE ReOk(ReLiteral(e), 0)
\* the first index from i that holds no digit
RECURSIVE ReDigitsEnd(_, _)
ReDigitsEnd(p, i) == IF i <= Len(p) /\ p[i] \in ReDigits THEN ReDigitsEnd(p, i + 1) ELSE i
\* int(p[i..j-1])
RECURSIVE ReInt(_, _, _)
ReInt(p, i, j) == IF i >= j THEN 0 ELSE 10 * ReInt(p, i, j - 1) + (Ord(p[j - 1]) - 48)
\* the "{" of a pattern at index i: a literal brace, an error, or a repeat
\* with its bounds (max -1 is MAXREPEAT) and the index after "}"
ReBrace(p, i) ==
    LET Bounds(b, hasHi, min, max) ==
            IF b > Len(p) \/ p[b] # "}" THEN [q |-> "literal"]
            ELSE IF hasHi /\ max < min THEN [q |-> "error"]
            ELSE [q |-> "repeat", min |-> min, max |-> max, i |-> b + 1]
        Second(a, comma, b) ==
            Bounds(b, IF comma THEN b > a + 1 ELSE a > i + 1,
                   IF a > i + 1 THEN ReInt(p, i + 1, a) ELSE 0,
                   IF comma THEN (IF b > a + 1 THEN ReInt(p, a + 1, b) ELSE -1)
                   ELSE IF a > i + 1 THEN ReInt(p, i + 1, a) ELSE -1)
        First(a, comma) == Second(a, comma, IF comma THEN ReDigitsEnd(p, a + 1) ELSE a)
        Lo(a) == First(a, a <= Len(p) /\ p[a] = ",")
    IN  IF i < Len(p) /\ p[i + 1] = "}" THEN [q |-> "literal"]
        ELSE Lo(ReDigitsEnd(p, i + 1))
\* the index of the ")" that ends a comment whose text starts at i: the first
\* ")" token, a backslash and the character after it being one token; 0 when
\* the pattern ends first or on a lone backslash
RECURSIVE ReCommentEnd(_, _)
ReCommentEnd(p, i) == IF i > Len(p) THEN 0 ELSE IF p[i] = ")" THEN i ELSE IF p[i] # "\\" THEN ReCommentEnd(p, i + 1) ELSE IF i = Len(p) THEN 0 ELSE ReCommentEnd(p, i + 2)
\* the members of a character set from index j up to its "]"
RECURSIVE ReParseSet(_, _, _, _)
ReParseSet(p, j, negate, items) ==
    IF j > Len(p) THEN ReError
    ELSE IF p[j] = "]" /\ items # <<>> THEN ReOk([t |-> "set", negate |-> negate, items |-> items], j + 1)
    ELSE IF p[j] = "\\" /\ j = Len(p) THEN ReError
    ELSE LET Range(code1, code2, m) ==
                 IF code2.s # "ok" THEN code2
                 ELSE IF code1.n.t # "lit" \/ code2.n.t # "lit" THEN ReError
                 ELSE IF Ord(code2.n.c) < Ord(code1.n.c) THEN ReError
                 ELSE ReParseSet(p, m, negate, Append(items, [t |-> "range", lo |-> code1.n.c, hi |-> code2.n.c]))
             Member(code1, k) ==
                 IF code1.s # "ok" THEN code1
                 ELSE IF k <= Len(p) /\ p[k] = "-"
                 THEN IF k + 1 > Len(p) THEN ReError
                      ELSE IF p[k + 1] = "]" THEN ReOk([t |-> "set", negate |-> negate, items |-> items \o <<code1.n, ReLiteral("-")>>], k + 2)
                      ELSE IF p[k + 1] = "\\" /\ k + 1 = Len(p) THEN ReError
                      ELSE IF p[k + 1] = "\\" THEN Range(code1, ReEscape(p[k + 2], TRUE), k + 3)
                      ELSE Range(code1, ReOk(ReLiteral(p[k + 1]), 0), k + 2)
                 ELSE ReParseSet(p, k, negate, Append(items, code1.n))
         IN  IF p[j] = "\\" THEN Member(ReEscape(p[j + 1], TRUE), j + 2)
             ELSE Member(ReOk(ReLiteral(p[j]), 0), j + 1)
RECURSIVE ReParseSeq(_, _, _)
RECURSIVE ReParseAlt(_, _, _)
\* a group whose body starts at index i: the body, then its ")"
ReGroup(p, i, items, kind) ==
    LET Close(r) ==
            IF r.s # "ok" THEN r
            ELSE IF r.i > Len(p) THEN ReError
            ELSE ReParseSeq(p, r.i + 1, Append(items, [t |-> kind, n |-> r.n]))
    IN  Close(ReParseAlt(p, i, <<>>))
\* _parse: the items of one alternative from index i, up to "|", ")" or the end
ReParseSeq(p, i, items) ==
    IF i > Len(p) \/ p[i] \in {"|", ")"} THEN ReOk([t |-> "seq", items |-> items], i)
    ELSE LET c == p[i]
             next == IF i < Len(p) THEN p[i + 1] ELSE ""
             after == IF i + 1 < Len(p) THEN p[i + 2] ELSE ""
             third == IF i + 2 < Len(p) THEN p[i + 3] ELSE ""
             Atom(r, j) == IF r.s # "ok" THEN r ELSE ReParseSeq(p, j, Append(items, r.n))
             Set(r) == IF r.s # "ok" THEN r ELSE ReParseSeq(p, r.i, Append(items, r.n))
             Repeat(q) ==
                 IF q.q = "literal" THEN ReParseSeq(p, i + 1, Append(items, ReLiteral("{")))
                 ELSE IF q.q = "error" THEN ReError
                 ELSE IF items = <<>> THEN ReError
                 ELSE IF items[Len(items)].t \in {"at", "rep"} THEN ReError
                 ELSE IF q.i <= Len(p) /\ p[q.i] = "+" THEN ReUnsupported
                 ELSE ReParseSeq(p, IF q.i <= Len(p) /\ p[q.i] = "?" THEN q.i + 1 ELSE q.i, [items EXCEPT ![Len(items)] = [t |-> "rep", min |-> q.min, max |-> q.max, n |-> items[Len(items)]]])
         IN  IF c = "\\"
             THEN IF i = Len(p) THEN ReError ELSE Atom(ReEscape(next, FALSE), i + 2)
             ELSE IF c \notin ReSpecial THEN ReParseSeq(p, i + 1, Append(items, ReLiteral(c)))
             ELSE IF c = "[" THEN Set(ReParseSet(p, IF next = "^" THEN i + 2 ELSE i + 1, next = "^", <<>>))
             ELSE IF c = "{" THEN Repeat(ReBrace(p, i))
             ELSE IF c \in {"*", "+", "?"} THEN Repeat([q |-> "repeat", min |-> IF c = "+" THEN 1 ELSE 0, max |-> IF c = "?" THEN 1 ELSE -1, i |-> i + 1])
             ELSE IF c = "." THEN ReParseSeq(p, i + 1, Append(items, [t |-> "any"]))
             ELSE IF c \in {"^", "$"} THEN ReParseSeq(p, i + 1, Append(items, [t |-> "at", at |-> c]))
             ELSE IF next # "?" THEN ReGroup(p, i + 1, items, "group")
             ELSE IF after = "" THEN ReError
             ELSE IF after = ":" THEN ReGroup(p, i + 3, items, "group")
             ELSE IF after = "=" THEN ReGroup(p, i + 3, items, "assert")
             ELSE IF after = "!" THEN ReGroup(p, i + 3, items, "assert_not")
             ELSE IF after = "#" THEN (IF ReCommentEnd(p, i + 3) = 0 THEN ReError ELSE ReParseSeq(p, ReCommentEnd(p, i + 3) + 1, items))
             ELSE IF after = "<" THEN (IF third \in {"=", "!"} THEN ReUnsupported ELSE ReError)
             ELSE IF after = "P" THEN (IF third \in {"<", "="} THEN ReUnsupported ELSE ReError)
             ELSE IF after \in {"(", ">", "-", "i", "L", "m", "s", "x", "a", "t", "u"} THEN ReUnsupported
             ELSE ReError
\* _parse_sub: the alternatives from index i, separated by "|"
ReParseAlt(p, i, branches) ==
    LET Branch(r) ==
            IF r.s # "ok" THEN r
            ELSE IF r.i <= Len(p) /\ p[r.i] = "|" THEN ReParseAlt(p, r.i + 1, Append(branches, r.n))
            ELSE ReOk([t |-> "alt", items |-> Append(branches, r.n)], r.i)
    IN  Branch(ReParseSeq(p, i, <<>>))
\* parse: the whole pattern; a ")" left over is an error
ReParse(p) ==
    LET Whole(r) == IF r.s # "ok" THEN r ELSE IF r.i <= Len(p) THEN ReError ELSE r
    IN  Whole(ReParseAlt(p, 1, <<>>))
\* does character ch belong to category c (\d \D \s \S \w \W); the
\* categories of a str pattern are those of str.isdigit, str.isspace and
\* str.isalnum, here for the characters of ReChars
ReInCategory(c, ch) ==
    LET digit == ch \in ReDigits
        word == ch \in ReLetters \cup ReDigits \cup {"_"}
        space == ch \in {" "} \cup {ReChars[i] : i \in (9..13) \cup (28..31)}
    IN  CASE ch \in RePrintable \cup ReControls ->
                 CASE c = "d" -> digit [] c = "D" -> ~digit [] c = "s" -> space
                   [] c = "S" -> ~space [] c = "w" -> word [] OTHER -> ~word
\* does character ch match a one-character node
ReCharIn(n, ch) ==
    CASE n.t = "lit" -> ch = n.c
      [] n.t = "any" -> ch # "\n"
      [] n.t = "range" -> Ord(n.lo) <= Ord(ch) /\ Ord(ch) <= Ord(n.hi)
      [] n.t = "cat" -> ReInCategory(n.c, ch)
      [] OTHER -> (\E k \in DOMAIN n.items : IF n.items[k].t = "lit" THEN ch = n.items[k].c ELSE IF n.items[k].t = "range" THEN Ord(n.items[k].lo) <= Ord(ch) /\ Ord(ch) <= Ord(n.items[k].hi) ELSE ReInCategory(n.items[k].c, ch)) # n.negate
\* does the position test at hold after q characters of text
ReAt(at, text, q) ==
    LET word(k) == k >= 1 /\ k <= Len(text) /\ ReInCategory("w", text[k])
        boundary == Len(text) > 0 /\ word(q) # word(q + 1)
    IN  CASE at \in {"^", "A"} -> q = 0
          [] at = "$" -> q = Len(text) \/ (q = Len(text) - 1 /\ text[Len(text)] = "\n")
          [] at = "Z" -> q = Len(text)
          [] at = "b" -> boundary
          [] OTHER -> Len(text) > 0 /\ ~boundary
\* the positions where a match of node n that starts after q characters ends
RECURSIVE ReEnds(_, _, _)
RECURSIVE ReEndsSeq(_, _, _)
RECURSIVE ReRepeat(_, _, _, _, _, _)
ReEnds(n, text, q) ==
    CASE n.t \in {"lit", "any", "range", "cat", "set"} -> IF q < Len(text) /\ ReCharIn(n, text[q + 1]) THEN {q + 1} ELSE {}
      [] n.t = "at" -> IF ReAt(n.at, text, q) THEN {q} ELSE {}
      [] n.t = "seq" -> ReEndsSeq(n.items, text, {q})
      [] n.t = "alt" -> UNION {ReEnds(n.items[k], text, q) : k \in DOMAIN n.items}
      [] n.t = "group" -> ReEnds(n.n, text, q)
      [] n.t = "assert" -> IF ReEnds(n.n, text, q) # {} THEN {q} ELSE {}
      [] n.t = "assert_not" -> IF ReEnds(n.n, text, q) = {} THEN {q} ELSE {}
      [] OTHER -> ReRepeat(n.n, n.min, n.max, text, {q}, {})
ReEndsSeq(items, text, from) ==
    IF items = <<>> \/ from = {} THEN from
    ELSE ReEndsSeq(Tail(items), text, UNION {ReEnds(Head(items), text, q) : q \in from})
\* min more obligatory rounds of n from the positions of from, then up to max
\* more (max -1: any number); seen gathers the positions of the optional rounds
ReRepeat(n, min, max, text, from, seen) ==
    LET Round(step, less) ==
            IF min > 0 THEN ReRepeat(n, min - 1, less, text, step, {})
            ELSE IF max = 0 \/ from \subseteq seen THEN seen \cup from
            ELSE ReRepeat(n, 0, less, text, step \ (seen \cup from), seen \cup from)
    IN  Round(UNION {ReEnds(n, text, q) : q \in from}, IF max < 0 THEN max ELSE max - 1)
\* re.match(pattern, string): "match" (a Match object), "no_match" (None),
\* "error" (re.error raised), or "unsupported" for a pattern outside the parser
\* above
ReMatchResult(pattern, string) ==
    LET Run(r) ==
            IF r.s = "error" THEN "error"
            ELSE IF r.s = "unsupported" THEN "unsupported"
            ELSE IF ReEnds(r.n, string, 0) # {} THEN "match" ELSE "no_match"
    IN  Run(ReParse(pattern))

\* re.match as PolicyRule.matches calls it. A pattern with a construct the
\* parser above does not carry (a backreference, a named group, a
\* look-behind, an inline flag, a conditional, an atomic group, a possessive
\* repeat, a numeric or \x \u \N escape) has no value here, and neither has
\* a category or a range asked of a character outside ReChars.
ReMatch(pattern, string) ==
    [match |-> "match", no_match |-> "no_match", error |-> "re.error"][
        ReMatchResult(pattern, string)]

\* ------------------------------------------------------ PolicyRule.matches
\* rule.conditions is a dict in insertion order: a sequence of items, each a
\* key with its condition. A condition is [literal |-> v] (a plain value) or
\* [dict |-> d] with d a dict that may carry "operator", "values" (a list)
\* and "value" (any value).
Item(key, value) == [key |-> key, value |-> value]
IsDict(c) == "dict" \in DOMAIN c

Operator(d) == IF "operator" \in DOMAIN d THEN d.operator ELSE "equals"

\* condition_value.get("values", condition_value.get("value"))
Operand(d) ==
    IF "values" \in DOMAIN d THEN PyList(d.values)
    ELSE IF "value" \in DOMAIN d THEN d.value ELSE None

\* "context_value in values": "yes", "no", or "TypeError" when values is
\* not a container, or is a str and context_value is not
Membership(context_value, values) ==
    IF values[1] = "l"
    THEN IF InList(context_value, Items(values)) THEN "yes" ELSE "no"
    ELSE IF values[1] = "s" /\ context_value[1] = "s"
    THEN IF IsSubstring(Tail(context_value), Tail(values))
         THEN "yes" ELSE "no"
    ELSE "TypeError"

\* one iteration of the loop body: "pass" when it goes on to the next
\* condition, "return_false", or the exception the test raises ("TypeError",
\* or "re.error" for a pattern re cannot compile)
ConditionResult(c, context_value) ==
    IF IsDict(c)
    THEN LET d == c.dict
             operator == Operator(d)
             values == Operand(d)
         IN  IF operator = "equals"
                 THEN IF PyEq(context_value, values) THEN "pass"
                      ELSE "return_false"
             ELSE IF operator = "in"
                 THEN CASE Membership(context_value, values) = "yes" -> "pass"
                        [] Membership(context_value, values) = "no" ->
                               "return_false"
                        [] OTHER -> "TypeError"
             ELSE IF operator = "not_in"
                 THEN CASE Membership(context_value, values) = "yes" ->
                               "return_false"
                        [] Membership(context_value, values) = "no" -> "pass"
                        [] OTHER -> "TypeError"
             ELSE IF operator = "contains"
                 THEN IF values[1] # "s" THEN "TypeError"
                      ELSE IF IsSubstring(Tail(values), Str(context_value))
                           THEN "pass" ELSE "return_false"
             ELSE IF operator = "regex"
                 THEN IF values[1] # "s" THEN "TypeError"
                      ELSE LET Outcome(m) ==
                                   IF m = "match" THEN "pass"
                                   ELSE IF m = "no_match" THEN "return_false"
                                   ELSE m
                           IN  Outcome(ReMatch(Tail(values),
                                               Str(context_value)))
             ELSE "pass"
    ELSE IF PyEq(context_value, c.literal) THEN "pass" ELSE "return_false"

\* one iteration of the loop body does not return False and does not raise
ConditionHolds(c, context_value) == ConditionResult(c, context_value) = "pass"

\* the loop over self.conditions.items(), in the order of the dict
RECURSIVE MatchLoop(_, _)
MatchLoop(items, context) ==
    IF items = <<>> THEN "True"
    ELSE LET Body(r) == IF r = "pass" THEN MatchLoop(Tail(items), context)
                        ELSE IF r = "return_false" THEN "False"
                        ELSE r
         IN  Body(ConditionResult(Head(items).value,
                                  Get(context, Head(items).key)))

\* PolicyRule.matches: "True", "False", or the exception it raises
MatchResult(rule, context) ==
    IF ~rule.enabled THEN "False" ELSE MatchLoop(rule.conditions, context)

\* matches returned True
Matches(rule, context) == MatchResult(rule, context) = "True"

\* matches raised
MatchesRaises(rule, context) ==
    MatchResult(rule, context) \in {"TypeError", "re.error"}

\* ------------------------------------------------------------ PolicyEngine
\* PolicyRule as built by _load_policies from one rule_data dict of a stored
\* policy; name, description and metadata are carried nowhere but into log
\* text and are left out.
RuleFromData(rule_data) ==
    [rule_id |-> rule_data.rule_id,
     policy_type |-> rule_data.policy_type,
     conditions |-> rule_data.conditions,
     action |-> rule_data.action,
     priority |-> IF "priority" \in DOMAIN rule_data
                  THEN rule_data.priority ELSE 100,
     enabled |-> IF "enabled" \in DOMAIN rule_data
                 THEN rule_data.enabled ELSE TRUE]

RECURSIVE RulesFromData(_)
RulesFromData(l) ==
    IF l = <<>> THEN <<>>
    ELSE <<RuleFromData(Head(l))>> \o RulesFromData(Tail(l))

\* list.sort(key=lambda x: x.priority): stable, ascending
RECURSIVE SortByPriority(_)
SortByPriority(l) ==
    IF l = <<>> THEN <<>>
    ELSE LET n == Len(l)
             front == SortByPriority(SubSeq(l, 1, n - 1))
             x == l[n]
             k == Cardinality({i \in DOMAIN front :
                                  front[i].priority <= x.priority})
         IN  SubSeq(front, 1, k) \o <<x>> \o SubSeq(front, k + 1, n - 1)

\* the loop over the stored policies: rules go to the list of the stored
\* policy's own policy_type
RECURSIVE AppendStored(_, _)
AppendStored(rows, pol) ==
    IF rows = <<>> THEN pol
    ELSE LET sp == Head(rows)
             pol1 == IF sp.policy_type \in DOMAIN pol THEN pol
                     ELSE pol @@ (sp.policy_type :> <<>>)
             pol2 == [pol1 EXCEPT ![sp.policy_type] =
                                      @ \o RulesFromData(sp.rules)]
         IN  AppendStored(Tail(rows), pol2)

ActiveRows(rows) == SelectSeq(rows, LAMBDA sp : sp.is_active)

LoadPolicies(rows) ==
    LET loaded == AppendStored(ActiveRows(rows), <<>>)
    IN  [t \in DOMAIN loaded |-> SortByPriority(loaded[t])]

DefaultRule(id, type, conds, act) ==
    [rule_id |-> id, policy_type |-> type, conditions |-> conds,
     action |-> act, priority |-> 100, enabled |-> TRUE]

default_policies ==
    << DefaultRule("data_access_own_leads", "data_access",
           << Item("resource_type", [literal |-> s_lead]),
              Item("action", [dict |-> [operator |-> "in",
                                        values |-> <<s_read, s_write>>]]) >>,
           "require_approval"),
       DefaultRule("ai_email_approval", "ai_behavior",
           << Item("tool_type", [literal |-> s_email]),
              Item("ai_generated", [literal |-> PyTrue]) >>,
           "require_approval"),
       DefaultRule("external_email_restriction", "communication",
           << Item("email_domain",
                   [dict |-> [operator |-> "not_in",
                              values |-> <<s_company_com>>]]),
              Item("business_hours", [literal |-> PyFalse]) >>,
           "deny"),
       DefaultRule("pii_redaction", "privacy",
           << Item("contains_pii", [literal |-> PyTrue]) >>,
           "redact") >>

HasRuleId(pol, id) ==
    \E t \in DOMAIN pol : \E i \in DOMAIN pol[t] : pol[t][i].rule_id = id

\* the iteration without the search for an existing rule_id
AddDefaultAlways(pol, policy_rule) ==
    LET pol1 == IF policy_rule.policy_type \in DOMAIN pol THEN pol
                ELSE pol @@ (policy_rule.policy_type :> <<>>)
    IN  [pol1 EXCEPT ![policy_rule.policy_type] = Append(@, policy_rule)]

\* one iteration of the loop over default_policies
AddDefault(pol, policy_rule) ==
    IF HasRuleId(pol, policy_rule.rule_id) THEN pol
    ELSE LET pol1 == IF policy_rule.policy_type \in DOMAIN pol THEN pol
                     ELSE pol @@ (policy_rule.policy_type :> <<>>)
         IN  [pol1 EXCEPT ![policy_rule.policy_type] = Append(@, policy_rule)]

RECURSIVE AddDefaults(_, _)
AddDefaults(pol, defaults) ==
    IF defaults = <<>> THEN pol
    ELSE AddDefaults(AddDefault(pol, Head(defaults)), Tail(defaults))

InitializeDefaultPolicies(pol) == AddDefaults(pol, default_policies)

\* PolicyEngine.__init__: load, then merge the defaults
ConstructPolicies(rows) == InitializeDefaultPolicies(LoadPolicies(rows))

\* the if/elif chain that updates final_action for a matched non-DENY rule
NextFinalAction(rule_action, final_action) ==
    IF rule_action = "require_approval" /\ final_action = "allow"
        THEN "require_approval"
    ELSE IF rule_action = "redact" /\ final_action \in {"allow", "log_only"}
        THEN "redact"
    ELSE IF rule_action = "log_only" /\ final_action = "allow"
        THEN "log_only"
    ELSE final_action

Violation(rule) == [rule_id |-> rule.rule_id, action |-> rule.action]

\* EvalLoop with the break taken on REQUIRE_APPROVAL as well as on DENY
RECURSIVE EvalLoopBreakOnApproval(_, _, _, _, _)
EvalLoopBreakOnApproval(rules, context, violations, final_action, visited) ==
    IF rules = <<>>
    THEN [action |-> final_action, violations |-> violations,
          context |-> context, visited |-> visited]
    ELSE LET rule == Head(rules)
             seen == Append(visited, rule)
             Visit(matches) ==
                 IF matches \notin {"True", "False"}
                 THEN [raised |-> matches, action |-> "none",
                       violations |-> violations, context |-> context,
                       visited |-> seen]
                 ELSE IF matches = "True"
                 THEN IF rule.action \in {"deny", "require_approval"}
                      THEN [action |-> rule.action,
                            violations |->
                                Append(violations, Violation(rule)),
                            context |-> context, visited |-> seen]
                      ELSE EvalLoopBreakOnApproval(Tail(rules), context,
                                Append(violations, Violation(rule)),
                                NextFinalAction(rule.action, final_action),
                                seen)
                 ELSE EvalLoopBreakOnApproval(Tail(rules), context,
                                              violations, final_action, seen)
         IN  Visit(MatchResult(rule, context))

\* the for loop of evaluate_policies; visited lists the rules looked at; a
\* rule whose matches raises ends the call with that exception
RECURSIVE EvalLoop(_, _, _, _, _)
EvalLoop(rules, context, violations, final_action, visited) ==
    IF rules = <<>>
    THEN [action |-> final_action, violations |-> violations,
          context |-> context, visited |-> visited]
    ELSE LET rule == Head(rules)
             seen == Append(visited, rule)
             Visit(matches) ==
                 IF matches \notin {"True", "False"}
                 THEN [raised |-> matches, action |-> "none",
                       violations |-> violations, context |-> context,
                       visited |-> seen]
                 ELSE IF matches = "True"
                 THEN IF rule.action = "deny"
                      THEN [action |-> "deny",
                            violations |->
                                Append(violations, Violation(rule)),
                            context |-> context, visited |-> seen]
                      ELSE EvalLoop(Tail(rules), context,
                                    Append(violations, Violation(rule)),
                                    NextFinalAction(rule.action, final_action),
                                    seen)
                 ELSE EvalLoop(Tail(rules), context, violations,
                               final_action, seen)
         IN  Visit(MatchResult(rule, context))

EvaluatePolicies(pol, policy_type, context) ==
    IF policy_type \notin DOMAIN pol
    THEN [action |-> "allow", violations |-> <<>>, visited |-> <<>>]
    ELSE EvalLoop(pol[policy_type], context, <<>>, "allow", <<>>)

\* PolicyEngine.evaluate_policies as the caller sees it
EvaluationResult(pol, policy_type, context) ==
    LET Seen(r) == [k \in DOMAIN r \ {"visited"} |-> r[k]]
    IN  Seen(EvaluatePolicies(pol, policy_type, context))

s_redacted == <<"s", "[", "R", "E", "D", "A", "C", "T", "E", "D", "]">>
sensitive_fields == {"ssn", "credit_card", "password", "api_key", "token"}

RedactSensitiveData(context) ==
    [k \in DOMAIN context |->
        IF k \in sensitive_fields THEN s_redacted ELSE context[k]]

\* the handlers with REDACT refusing the action
HandlerResultRedactRefuses(action, context, evaluation) ==
    CASE action = "allow" ->
            [allowed |-> TRUE, message |-> "Action allowed"]
      [] action = "deny" ->
            [allowed |-> FALSE, message |-> "Action denied by policy",
             violations |-> evaluation.violations]
      [] action = "require_approval" ->
            [allowed |-> FALSE, requires_approval |-> TRUE,
             message |-> "Action requires approval",
             approval_context |-> context]
      [] action = "log_only" ->
            [allowed |-> TRUE, logged |-> TRUE, message |-> "Action logged"]
      [] action = "redact" ->
            [allowed |-> FALSE, redacted |-> TRUE,
             message |-> "Sensitive data redacted",
             redacted_context |-> RedactSensitiveData(context)]

\* the handler registered for an action, applied to the evaluation
HandlerResult(action, context, evaluation) ==
    CASE action = "allow" ->
            [allowed |-> TRUE, message |-> "Action allowed"]
      [] action = "deny" ->
            [allowed |-> FALSE, message |-> "Action denied by policy",
             violations |-> evaluation.violations]
      [] action = "require_approval" ->
            [allowed |-> FALSE, requires_approval |-> TRUE,
             message |-> "Action requires approval",
             approval_context |-> context]
      [] action = "log_only" ->
            [allowed |-> TRUE, logged |-> TRUE, message |-> "Action logged"]
      [] action = "redact" ->
            [allowed |-> TRUE, redacted |-> TRUE,
             message |-> "Sensitive data redacted",
             redacted_context |-> RedactSensitiveData(context)]

\* evaluation_result.update(handler_result): the handler's keys win
EnforcePolicy(pol, policy_type, context) ==
    LET Handle(evaluation_result) ==
            IF "raised" \in DOMAIN evaluation_result THEN evaluation_result
            ELSE HandlerResult(evaluation_result.action, context,
                               evaluation_result) @@ evaluation_result
    IN  Handle(EvaluationResult(pol, policy_type, context))

\* ------------------------------------------------------------ RBACManager
AllPermissions ==
    { "read_leads", "write_leads", "delete_leads",
      "read_accounts", "write_accounts", "delete_accounts",
      "read_opportunities", "write_opportunities", "delete_opportunities",
      "execute_ai_tools", "approve_ai_decisions", "configure_ai_workflows",
      "access_ai_memory", "send_emails", "schedule_meetings", "make_calls",
      "manage_users", "manage_roles", "view_analytics", "export_data",
      "configure_system", "view_audit_logs", "manage_compliance",
      "data_retention" }

default_roles ==
    [ admin |-> AllPermissions,
      sales_manager |->
          { "read_leads", "write_leads", "read_accounts", "write_accounts",
            "read_opportunities", "write_opportunities", "execute_ai_tools",
            "approve_ai_decisions", "send_emails", "schedule_meetings",
            "view_analytics" },
      sales_rep |->
          { "read_leads", "write_leads", "read_accounts", "write_accounts",
            "read_opportunities", "write_opportunities", "execute_ai_tools",
            "send_emails", "schedule_meetings" },
      viewer |->
          { "read_leads", "read_accounts", "read_opportunities",
            "view_analytics" } ]

\* _initialize_default_roles without the test for an existing role
InitializeDefaultRolesOverwrite(db_roles, db_role_permissions) ==
    [roles |-> db_roles \cup DOMAIN default_roles,
     role_permissions |->
         db_role_permissions \cup
         { rp \in (DOMAIN default_roles) \X AllPermissions :
               rp[2] \in default_roles[rp[1]] },
     raised |-> "none"]

\* _initialize_default_roles over the Role and RolePermission tables: a
\* default role and its permission rows are added when no role has its id;
\* the commit raises, and adds nothing, when the table already holds one of
\* the added permission rows (its primary key is the pair)
InitializeDefaultRoles(db_roles, db_role_permissions) ==
    LET missing == DOMAIN default_roles \ db_roles
        added == { rp \in missing \X AllPermissions :
                       rp[2] \in default_roles[rp[1]] }
    IN  IF added \cap db_role_permissions # {}
        THEN [roles |-> db_roles,
              role_permissions |-> db_role_permissions,
              raised |-> "IntegrityError"]
        ELSE [roles |-> db_roles \cup missing,
              role_permissions |-> db_role_permissions \cup added,
              raised |-> "none"]

cache_ttl == 15

\* the cache test at the head of get_user_permissions
CacheHit(user_id) ==
    /\ user_id \in DOMAIN permission_cache
    /\ user_id \in DOMAIN cache_timestamps
    /\ now - cache_timestamps[user_id] < cache_ttl

\* the database query of get_user_permissions; a permission string that is
\* no member of the Permission enumeration is skipped
QueryUserPermissions(user_id) ==
    { p \in AllPermissions :
        \E r \in { ur[2] : ur \in { x \in user_roles : x[1] = user_id } } :
            <<r, p>> \in role_permissions }

GetUserPermissions(user_id) ==
    IF CacheHit(user_id) THEN permission_cache[user_id]
    ELSE QueryUserPermissions(user_id)

\* the caches after get_user_permissions(user_id)
Put(d, k, v) == [x \in DOMAIN d \cup {k} |-> IF x = k THEN v ELSE d[x]]
\* dict.pop(k, None) that leaves the entry in place
KeepEntry(d, k) == d
\* dict.pop(k, None)
Pop(d, k) == [x \in DOMAIN d \ {k} |-> d[x]]

CacheAfterGet(user_id) ==
    IF CacheHit(user_id) THEN permission_cache
    ELSE Put(permission_cache, user_id, QueryUserPermissions(user_id))

TimestampsAfterGet(user_id) ==
    IF CacheHit(user_id) THEN cache_timestamps
    ELSE Put(cache_timestamps, user_id, now)

\* has_permission that only asks whether the user holds any permission
HasPermissionAnyGranted(user_id, permission) ==
    GetUserPermissions(user_id) # {}

HasPermission(user_id, permission) ==
    permission \in GetUserPermissions(user_id)

\* no WorkflowExecution under way
WfIdle == [pc |-> "idle"]
WxIdle == [pc |-> "idle"]
OrchIdle == [pc |-> "idle"]

\* ----------------------------------------------- inputs of the two harnesses
MtIdle == [rule |-> [enabled |-> FALSE, conditions |-> <<>>],
           context |-> <<>>, done |-> FALSE, result |-> FALSE,
           raised |-> FALSE]
EvIdle == [policy_type |-> "none", context |-> <<>>, done |-> FALSE,
           result |-> [action |-> "allow", violations |-> <<>>,
                       visited |-> <<>>]]

\* matchers whose test raises on some context value: an operand that is
\* missing or no str, a pattern re cannot compile, and a list the context
\* value may equal
RaisingMatchers ==
    { [dict |-> [operator |-> "contains"]],
      [dict |-> [operator |-> "regex", value |-> PyTrue]],
      [dict |-> [operator |-> "regex", value |-> <<"s", "[">>]],
      [dict |-> [operator |-> "regex", value |-> <<"s", "*", "l">>]],
      [dict |-> [operator |-> "in", value |-> s_lead]],
      [dict |-> [operator |-> "equals", values |-> <<s_lead>>]] }

\* matchers of every kind: literal, equals (named and by default), in,
\* not_in, contains, regex (with a category and with a comment that holds an
\* escaped parenthesis)
MatchMatchers ==
    { [literal |-> s_lead], [literal |-> PyTrue],
      [dict |-> [operator |-> "equals", value |-> s_lead]],
      [dict |-> [value |-> s_lead]],
      [dict |-> [operator |-> "in", values |-> <<s_lead, s_account>>]],
      [dict |-> [operator |-> "not_in", values |-> <<s_lead>>]],
      [dict |-> [operator |-> "contains", value |-> <<"s", "e", "a">>]],
      [dict |-> [operator |-> "contains", value |-> <<"s", "o", "n">>]],
      [dict |-> [operator |-> "regex", value |-> <<"s", "l", ".", "*">>]],
      [dict |-> [operator |-> "regex", value |-> s_lead]],
      [dict |-> [operator |-> "regex", value |-> <<"s", "x", "*", "l", "e">>]],
      [dict |-> [operator |-> "regex", value |-> <<"s", "N", ".", "*">>]],
      [dict |-> [operator |-> "regex", value |-> <<"s", "l", "+">>]],
      [dict |-> [operator |-> "regex", value |-> <<"s", ".">>]],
      [dict |-> [operator |-> "regex", value |-> <<"s", "\\", "s">>]],
      [dict |-> [operator |-> "regex",
                 value |-> <<"s", "(", "?", "#", "\\", ")", ")", "l">>]],
      [dict |-> [operator |-> "contains", value |-> <<"s", "'", "i", "t">>]],
      [dict |-> [operator |-> "contains",
                 value |-> <<"s", "\\", "x", "0", "b">>]] }
    \cup RaisingMatchers

MatchConditions ==
    { <<>> }
    \cup { << Item("resource_type", m) >> : m \in MatchMatchers }
    \cup { << Item("resource_type", m),
              Item("action", [literal |-> s_read]) >> :
               m \in MatchMatchers }
    \cup { << Item("action", [literal |-> s_read]),
              Item("resource_type", m) >> : m \in RaisingMatchers }

MatchContexts ==
    LET rts == { <<>> } \cup { [resource_type |-> v] :
                     v \in {s_lead, s_account, None, PyTrue,
                            PyList(<<s_lead>>), <<"s", "\n">>,
                            PyList(<< <<"s", "i", "t", "'", "s">> >>),
                            <<"s", ReChars[11]>>,
                            PyList(<< <<"s", ReChars[11]>> >>)} }
    IN  rts \cup { c @@ [action |-> s_read] : c \in rts }

MatchRules ==
    { [enabled |-> e, conditions |-> c] :
          e \in BOOLEAN, c \in MatchConditions }

\* rule_data dicts a stored policy may hold
MaxStoredRules == 2

CondLead == << Item("resource_type", [literal |-> s_lead]) >>

RuleData(id, act, pri) ==
    [rule_id |-> id, policy_type |-> "data_access", conditions |-> CondLead,
     action |-> act, priority |-> pri]

RuleCatalogue ==
    { RuleData("allow_lo", "allow", 10),
      RuleData("log_lo", "log_only", 10), RuleData("log_hi", "log_only", 200),
      RuleData("redact_lo", "redact", 10), RuleData("redact_hi", "redact", 200),
      RuleData("approve_lo", "require_approval", 10),
      RuleData("approve_hi", "require_approval", 200),
      RuleData("deny_hi", "deny", 200),
      [rule_id |-> "deny_off", policy_type |-> "data_access",
       conditions |-> CondLead, action |-> "deny", priority |-> 10,
       enabled |-> FALSE],
      [rule_id |-> "data_access_own_leads", policy_type |-> "data_access",
       conditions |-> CondLead, action |-> "log_only"] }

RECURSIVE SeqsUpTo(_, _)
SeqsUpTo(S, n) ==
    IF n = 0 THEN { <<>> }
    ELSE LET shorter == SeqsUpTo(S, n - 1)
         IN  shorter \cup { Append(q, x) : q \in shorter, x \in S }

\* the rule lists are split over two stored policies; a rule_id identifies
\* one rule, so no list holds a rule_id twice
StoredChoices ==
    UNION { { << [policy_type |-> ta[1], is_active |-> ta[2],
                  rules |-> SubSeq(l, 1, k)],
                 [policy_type |-> "data_access", is_active |-> TRUE,
                  rules |-> SubSeq(l, k + 1, Len(l))] >> :
                k \in 0..Len(l),
                ta \in { <<"data_access", TRUE>>, <<"data_access", FALSE>>,
                         <<"communication", TRUE>> } } :
            l \in { q \in SeqsUpTo(RuleCatalogue, MaxStoredRules) :
                        \A i, j \in DOMAIN q :
                            q[i].rule_id = q[j].rule_id => i = j } }

EvalTypes == {"data_access", "communication", "security"}
EvalContexts ==
    { [resource_type |-> s_lead, action |-> s_read],
      [resource_type |-> s_account, action |-> s_read,
       business_hours |-> PyFalse] }

\* the governance system is not constructed in the two harnesses
RetIdle == [op |-> "none"]
GovIdle ==
    /\ roles = {}
    /\ role_permissions = {}
    /\ user_roles = {}
    /\ permission_cache = <<>>
    /\ cache_timestamps = <<>>
    /\ now = 0
    /\ audit_logs = <<>>
    /\ approval_queue = <<>>
    /\ ret = RetIdle
    /\ th = [t \in {1, 2} |-> [pc |-> "idle"]]
    /\ session = <<>>
    /\ wf = WfIdle
    /\ wx = WxIdle
    /\ orch = OrchIdle

\* ------------------------------------------------- PolicyRule.matches harness
InitMatch ==
    /\ mt \in { [rule |-> r, context |-> c, done |-> FALSE, result |-> FALSE,
                 raised |-> FALSE] :
                   r \in MatchRules, c \in MatchContexts }
    /\ stored_policies = <<>>
    /\ policies = <<>>
    /\ engine = "new"
    /\ ev = EvIdle
    /\ workflows = <<>>
    /\ GovIdle

MatchesCall ==
    /\ ~mt.done
    /\ mt' = [mt EXCEPT !.done = TRUE,
                        !.result = Matches(mt.rule, mt.context),
                        !.raised = MatchesRaises(mt.rule, mt.context)]
    /\ UNCHANGED <<stored_policies, session, workflows, wx, orch, wf, policies, engine, ev, govVars, th>>

NextMatch == MatchesCall

SpecMatch == InitMatch /\ [][NextMatch]_vars

\* ------------------------------------------------------ PolicyEngine harness
InitPolicy ==
    /\ mt = MtIdle
    /\ stored_policies \in StoredChoices
    /\ policies = <<>>
    /\ engine = "new"
    /\ ev = EvIdle
    /\ workflows = <<>>
    /\ GovIdle

PolicyEngineInit ==
    /\ engine = "new"
    /\ policies' = ConstructPolicies(stored_policies)
    /\ engine' = "ready"
    /\ UNCHANGED <<mt, stored_policies, session, workflows, wx, orch, wf, ev, govVars, th>>

EvaluatePoliciesCall(policy_type, context) ==
    /\ engine = "ready"
    /\ ev' = [policy_type |-> policy_type, context |-> context, done |-> TRUE,
              result |-> EvaluatePolicies(policies, policy_type, context)]
    /\ UNCHANGED <<mt, stored_policies, session, workflows, wx, orch, wf, policies, engine, govVars, th>>

NextPolicy ==
    \/ PolicyEngineInit
    \/ \E t \in EvalTypes, c \in EvalContexts : EvaluatePoliciesCall(t, c)

SpecPolicy == InitPolicy /\ [][NextPolicy]_vars

\* bounds of the system model: audit rows written, the clock
MaxAudit == 3
MaxNow == 20
TickStep == 10

\* --------------------------------------------------------- AuditManager
\* log_event that drops the policy_violations argument
LogEventWithoutViolations(logs, event_type, user_id, action, resource_type, resource_id, details, policy_violations) ==
    Append(logs, [audit_id |-> Len(logs) + 1,
                  event_type |-> event_type,
                  user_id |-> user_id,
                  resource_type |-> resource_type,
                  resource_id |-> resource_id,
                  action |-> action,
                  timestamp |-> now,
                  details |-> details,
                  policy_violations |-> <<>>])

\* log_event: one AuditLog row is added and committed; audit_id is fresh
LogEvent(logs, event_type, user_id, action, resource_type, resource_id, details, policy_violations) ==
    Append(logs, [audit_id |-> Len(logs) + 1,
                  event_type |-> event_type,
                  user_id |-> user_id,
                  resource_type |-> resource_type,
                  resource_id |-> resource_id,
                  action |-> action,
                  timestamp |-> now,
                  details |-> details,
                  policy_violations |-> policy_violations])

\* ------------------------------------------------------ GovernanceSystem
DigitChar(d) == <<"0", "1", "2", "3", "4", "5", "6", "7", "8", "9">>[d + 1]

\* datetime.isoformat() of the time t minutes after the clock started, at
\* 2024-01-01T00:00:00: date, "T", hours, minutes and seconds in two digits
\* each; a time of whole seconds carries no microseconds
IsoFormat(t) ==
    <<"s", "2", "0", "2", "4", "-", "0", "1", "-", "0", "1", "T">>
        \o <<DigitChar((t \div 600) % 10), DigitChar((t \div 60) % 10), ":">>
        \o <<DigitChar((t % 60) \div 10), DigitChar(t % 10), ":", "0", "0">>

\* text.startswith(prefix)
StartsWith(text, prefix) ==
    /\ Len(text) >= Len(prefix)
    /\ \A i \in 1..Len(prefix) : text[i] = prefix[i]

\* {user_id, action, resource_type, resource_id, timestamp, **context}
FullContext(user_id, action, resource_type, resource_id, context) ==
    context @@ [user_id |-> user_id, action |-> action,
                resource_type |-> resource_type,
                resource_id |-> resource_id,
                timestamp |-> IsoFormat(now)]

\* permission_map.get((action, resource_type)); "none" stands for None
MapActionToPermission(action, resource_type) ==
    CASE action = s_read /\ resource_type = s_lead -> "read_leads"
      [] action = s_write /\ resource_type = s_lead -> "write_leads"
      [] action = s_delete /\ resource_type = s_lead -> "delete_leads"
      [] action = s_read /\ resource_type = s_account -> "read_accounts"
      [] action = s_write /\ resource_type = s_account -> "write_accounts"
      [] action = s_delete /\ resource_type = s_account -> "delete_accounts"
      [] action = s_read /\ resource_type = s_opportunity
            -> "read_opportunities"
      [] action = s_write /\ resource_type = s_opportunity
            -> "write_opportunities"
      [] action = s_delete /\ resource_type = s_opportunity
            -> "delete_opportunities"
      [] action = s_execute /\ resource_type = s_ai_tool
            -> "execute_ai_tools"
      [] action = s_approve /\ resource_type = s_ai_decision
            -> "approve_ai_decisions"
      [] action = s_send /\ resource_type = s_email -> "send_emails"
      [] action = s_schedule /\ resource_type = s_meeting
            -> "schedule_meetings"
      [] OTHER -> "none"

MapActionToPolicyType(action, resource_type) ==
    IF action \in {s_read, s_write, s_delete} THEN "data_access"
    ELSE IF action = s_execute /\ resource_type = s_ai_tool
        THEN "ai_behavior"
    ELSE IF action \in {s_send, s_schedule} THEN "communication"
    ELSE "security"

\* _queue_for_approval: the queue with the new request, under a fresh id
FreshApprovalId == Cardinality(DOMAIN approval_queue) + 1

QueueForApproval(user_id, action, context, policy_result) ==
    Put(approval_queue, FreshApprovalId,
        [approval_id |-> FreshApprovalId,
         user_id |-> user_id,
         action |-> action,
         context |-> context,
         policy_result |-> policy_result,
         requested_at |-> now,
         status |-> "pending"])

\* policy_result.get(key, default) for the two flags authorize_action reads
Allowed(policy_result) ==
    IF "allowed" \in DOMAIN policy_result THEN policy_result.allowed ELSE TRUE

\* the flag read under a key the handlers never set
RequiresApprovalWrongKey(policy_result) ==
    IF "require_approval" \in DOMAIN policy_result
    THEN policy_result.require_approval ELSE FALSE

RequiresApproval(policy_result) ==
    IF "requires_approval" \in DOMAIN policy_result
    THEN policy_result.requires_approval ELSE FALSE

\* what authorize_action returns once the audit entry is written
AuthorizeResult(policy_result) ==
    IF ~Allowed(policy_result)
    THEN IF RequiresApproval(policy_result)
         THEN [authorized |-> FALSE, reason |-> "requires_approval",
               approval_id |-> FreshApprovalId,
               message |->
                   "Action requires approval from authorized personnel"]
         ELSE [authorized |-> FALSE, reason |-> "policy_violation",
               message |-> policy_result.message,
               violations |-> policy_result.violations]
    ELSE [authorized |-> TRUE, message |-> "Action authorized",
          policy_result |-> policy_result]

\* a call that raised returns nothing
NoResult == <<>>

\* log_event swallowing a failed commit: the caller goes on as after a
\* successful write
AfterAuditSwallowed(db_ok, value, fallback) == value

\* the statements that follow a log_event call are reached only when its
\* commit did not raise
AfterAudit(db_ok, value, fallback) == IF db_ok THEN value ELSE fallback

\* authorize_action(user_id, action, resource_type, resource_id, context);
\* db_ok is whether the audit row's commit succeeds (it raises otherwise);
\* an exception of enforce_policy leaves the call before anything is logged
AuthorizeAction(user_id, call, db_ok) ==
    LET action == call.action
        resource_type == call.resource_type
        resource_id == None
        full_context == FullContext(user_id, action, resource_type,
                                    resource_id, call.context)
        required_permission == MapActionToPermission(action, resource_type)
        checked == required_permission # "none"
        denied == checked /\ ~HasPermission(user_id, required_permission)
        policy_type == MapActionToPolicyType(action, resource_type)
        policy_result == EnforcePolicy(policies, policy_type, full_context)
        policy_raised == ~denied /\ "raised" \in DOMAIN policy_result
        queued == ~Allowed(policy_result) /\ RequiresApproval(policy_result)
        called == [op |-> "authorize_action",
                   raised |-> policy_raised \/ ~db_ok,
                   evaluated |-> ~denied]
    IN  /\ engine = "ready"
        /\ Len(audit_logs) < MaxAudit
        /\ permission_cache' =
               IF checked THEN CacheAfterGet(user_id) ELSE permission_cache
        /\ cache_timestamps' =
               IF checked THEN TimestampsAfterGet(user_id)
               ELSE cache_timestamps
        /\ IF denied
           THEN /\ audit_logs' =
                       IF db_ok
                       THEN LogEvent(audit_logs, "permission_denied", user_id,
                                     action, resource_type, resource_id,
                                     full_context, <<>>)
                       ELSE audit_logs
                /\ approval_queue' = approval_queue
                /\ ret' = called @@
                       [result |->
                           AfterAudit(db_ok,
                               [authorized |-> FALSE,
                                reason |-> "insufficient_permissions",
                                message |-> <<"User lacks required permission",
                                              required_permission>>],
                               NoResult)]
           ELSE IF policy_raised
           THEN /\ audit_logs' = audit_logs
                /\ approval_queue' = approval_queue
                /\ ret' = called @@ [result |-> NoResult]
           ELSE /\ audit_logs' =
                       IF db_ok
                       THEN LogEvent(audit_logs,
                                     IF StartsWith(Str(action), Str(s_read))
                                     THEN "data_access"
                                     ELSE "data_modification",
                                     user_id, action, resource_type,
                                     resource_id, full_context,
                                     IF "violations" \in DOMAIN policy_result
                                     THEN policy_result.violations ELSE <<>>)
                       ELSE audit_logs
                /\ approval_queue' =
                       AfterAudit(db_ok,
                           IF queued
                           THEN QueueForApproval(user_id, action, full_context,
                                                 policy_result)
                           ELSE approval_queue,
                           approval_queue)
                /\ ret' = called @@
                       [result |-> AfterAudit(db_ok,
                                       AuthorizeResult(policy_result),
                                       NoResult)]
        /\ UNCHANGED <<harnessVars, policies, roles, role_permissions,
                       user_roles, now>>

\* approve_action(approval_id, approver_user_id, approved, comments)
ApproveAction(approval_id, approver_user_id, approved, comments, db_ok) ==
    LET found == approval_id \in DOMAIN approval_queue
        permitted == HasPermission(approver_user_id, "approve_ai_decisions")
        called == [op |-> "approve_action"]
    IN  /\ engine = "ready"
        /\ Len(audit_logs) < MaxAudit
        /\ IF ~found
           THEN /\ ret' = called @@
                       [raised |-> FALSE,
                        result |-> [success |-> FALSE,
                                    message |-> "Approval request not found"]]
                /\ UNCHANGED <<permission_cache, cache_timestamps,
                               approval_queue, audit_logs>>
           ELSE /\ permission_cache' = CacheAfterGet(approver_user_id)
                /\ cache_timestamps' = TimestampsAfterGet(approver_user_id)
                /\ IF ~permitted
                   THEN /\ ret' = called @@
                               [raised |-> FALSE,
                                result |->
                                    [success |-> FALSE,
                                     message |->
                                       "Insufficient permissions to approve"]]
                        /\ UNCHANGED <<approval_queue, audit_logs>>
                   ELSE /\ approval_queue' =
                               [approval_queue EXCEPT ![approval_id] =
                                   [status |-> IF approved THEN "approved"
                                               ELSE "denied",
                                    approver_user_id |-> approver_user_id,
                                    approved_at |-> now,
                                    comments |-> comments] @@ @]
                        /\ audit_logs' =
                               IF db_ok
                               THEN LogEvent(audit_logs, "ai_decision",
                                       approver_user_id,
                                       IF approved THEN s_approve_action
                                       ELSE s_deny_action,
                                       None, None,
                                       [approval_id |-> approval_id,
                                        original_user_id |->
                                          approval_queue[approval_id].user_id,
                                        original_action |->
                                          approval_queue[approval_id].action,
                                        approved |-> approved,
                                        comments |-> comments],
                                       <<>>)
                               ELSE audit_logs
                        /\ ret' = called @@
                               [raised |-> ~db_ok,
                                result |->
                                    IF db_ok
                                    THEN [success |-> TRUE,
                                          approved |-> approved,
                                          message |-> IF approved
                                                      THEN "Action approved"
                                                      ELSE "Action denied"]
                                    ELSE NoResult]
        /\ UNCHANGED <<harnessVars, policies, roles, role_permissions,
                       user_roles, now>>

\* the requests of the queue in the order the dict holds them (insertion
\* order, which is the order of their ids)
QueueValues == [i \in 1..Cardinality(DOMAIN approval_queue) |-> approval_queue[i]]

\* sorted(pending, key=requested_at): a stable insertion sort
RECURSIVE SortByRequestedAt(_)
SortByRequestedAt(l) ==
    IF l = <<>> THEN <<>>
    ELSE LET rest == SortByRequestedAt(Tail(l))
             before == SelectSeq(rest,
                           LAMBDA r : r.requested_at < Head(l).requested_at)
             after == SelectSeq(rest,
                           LAMBDA r : r.requested_at >= Head(l).requested_at)
         IN  before \o <<Head(l)>> \o after

\* get_pending_approvals(approver_user_id): has_permission is asked once for
\* every pending request when an approver is named, which fills the caches
GetPendingApprovals(approver_user_id) ==
    LET candidates == SelectSeq(QueueValues, LAMBDA r : r.status = "pending")
        checked == Truthy(approver_user_id) /\ candidates # <<>>
        pending == IF checked /\
                      ~HasPermission(approver_user_id, "approve_ai_decisions")
                   THEN <<>>
                   ELSE candidates
    IN  /\ engine = "ready"
        /\ permission_cache' = IF checked THEN CacheAfterGet(approver_user_id)
                               ELSE permission_cache
        /\ cache_timestamps' = IF checked
                               THEN TimestampsAfterGet(approver_user_id)
                               ELSE cache_timestamps
        /\ ret' = [op |-> "get_pending_approvals", raised |-> FALSE,
                   result |-> [requests |-> SortByRequestedAt(pending)]]
        /\ UNCHANGED <<harnessVars, policies, roles, role_permissions,
                       user_roles, now, audit_logs, approval_queue>>

\* the query finding no row
NoExistingAssignment(user_id, role_id) == FALSE

\* the query assign_role starts with: the UserRole row of the pair, if any
\* (the pair is the table's primary key)
ExistingAssignment(user_id, role_id) == <<user_id, role_id>> \in user_roles

\* the call before a get_user_permissions(user_id), when it was a role
\* change for the same user
RetBrief(user_id) ==
    IF ret.op \in {"assign_role", "revoke_role"} /\ ret.user_id = user_id
    THEN [op |-> ret.op, role_id |-> ret.role_id, changed |-> ret.changed,
          cached |-> ret.cached]
    ELSE [op |-> "other"]

\* RBACManager.assign_role(user_id, role_id). UserRole.role_id is a foreign
\* key into roles: for a role_id that names no role the commit raises where
\* the database enforces foreign keys (fk_enforced) and stores the row where
\* it does not.
AssignRole(user_id, role_id, fk_enforced) ==
    LET existing == ExistingAssignment(user_id, role_id)
        raised == ~existing /\ role_id \notin roles /\ fk_enforced
        changed == ~existing /\ ~raised
    IN  /\ engine = "ready"
        /\ user_roles' = IF changed THEN user_roles \cup {<<user_id, role_id>>}
                         ELSE user_roles
        /\ permission_cache' = IF changed THEN Pop(permission_cache, user_id)
                               ELSE permission_cache
        /\ cache_timestamps' = IF changed THEN Pop(cache_timestamps, user_id)
                               ELSE cache_timestamps
        /\ ret' = [op |-> "assign_role", user_id |-> user_id,
                   role_id |-> role_id, raised |-> raised,
                   existing |-> existing, changed |-> changed,
                   cached |-> CacheHit(user_id)]
        /\ UNCHANGED <<harnessVars, policies, roles, role_permissions, now,
                       audit_logs, approval_queue>>

\* RBACManager.revoke_role(user_id, role_id)
RevokeRole(user_id, role_id) ==
    LET changed == <<user_id, role_id>> \in user_roles
    IN  /\ engine = "ready"
        /\ user_roles' = IF changed THEN user_roles \ {<<user_id, role_id>>}
                         ELSE user_roles
        /\ permission_cache' = IF changed THEN Pop(permission_cache, user_id)
                               ELSE permission_cache
        /\ cache_timestamps' = IF changed THEN Pop(cache_timestamps, user_id)
                               ELSE cache_timestamps
        /\ ret' = [op |-> "revoke_role", user_id |-> user_id,
                   role_id |-> role_id, raised |-> FALSE,
                   changed |-> changed, cached |-> CacheHit(user_id)]
        /\ UNCHANGED <<harnessVars, policies, roles, role_permissions, now,
                       audit_logs, approval_queue>>

\* RBACManager.get_user_permissions(user_id)
GetUserPermissionsCall(user_id) ==
    /\ engine = "ready"
    /\ permission_cache' = CacheAfterGet(user_id)
    /\ cache_timestamps' = TimestampsAfterGet(user_id)
    /\ ret' = [op |-> "get_user_permissions", user_id |-> user_id,
               raised |-> FALSE, result |-> GetUserPermissions(user_id),
               after |-> RetBrief(user_id)]
    /\ UNCHANGED <<harnessVars, policies, roles, role_permissions, user_roles,
                   now, audit_logs, approval_queue>>

\* RBACManager(db_session): a manager with empty caches over the store,
\* after _initialize_default_roles; no manager when that raises
RBACManagerInit ==
    LET seeded == InitializeDefaultRoles(roles, role_permissions)
        built == seeded.raised = "none"
    IN  /\ roles' = seeded.roles
        /\ role_permissions' = seeded.role_permissions
        /\ permission_cache' = IF built THEN <<>> ELSE permission_cache
        /\ cache_timestamps' = IF built THEN <<>> ELSE cache_timestamps
        /\ engine' = IF built THEN "ready" ELSE engine
        /\ ret' = [op |-> "rbac_init", raised |-> ~built,
                   first |-> engine = "new", roles |-> roles,
                   role_permissions |-> role_permissions]
        /\ UNCHANGED <<mt, stored_policies, session, workflows, wx, orch, wf, ev, th, policies, user_roles, now,
                       audit_logs, approval_queue>>

\* time passes
Tick ==
    /\ engine = "ready"
    /\ now + TickStep <= MaxNow
    /\ now' = now + TickStep
    /\ UNCHANGED <<harnessVars, policies, rbacVars, audit_logs,
                   approval_queue, ret>>

\* ------------------------------------------------- inputs of the system
u_ann == <<"s", "a", "n", "n">>
u_bob == <<"s", "b", "o", "b">>
Users == {u_ann, u_bob}
AssignableRoles == {"viewer", "sales_manager"}

\* the decisions an approver sends: approved with a comment, denied without
ApprovalDecisions ==
    { [approved |-> TRUE, comments |-> <<"s", "o", "k">>],
      [approved |-> FALSE, comments |-> None] }

\* the UserRole table the system is constructed over
InitialUserRoles ==
    { { <<u_ann, "viewer">> },
      { <<u_ann, "viewer">>, <<u_bob, "sales_manager">> } }

AuthCalls ==
    { [action |-> s_write, resource_type |-> s_lead, context |-> <<>>],
      [action |-> s_read, resource_type |-> s_account, context |-> <<>>],
      [action |-> s_login, resource_type |-> None, context |-> <<>>] }

\* the PolicyStorage table the system is constructed over
GovStoredChoices ==
    { <<>>,
      << [policy_type |-> "data_access", is_active |-> TRUE,
          rules |-> << [rule_id |-> "redact_accounts",
                        policy_type |-> "data_access",
                        conditions |->
                            << Item("resource_type",
                                    [literal |-> s_account]) >>,
                        action |-> "redact", priority |-> 10],
                       [rule_id |-> "log_lead_access",
                        policy_type |-> "data_access",
                        conditions |->
                            << Item("resource_type",
                                    [literal |-> s_lead]) >>,
                        action |-> "log_only", priority |-> 50],
                       [rule_id |-> "deny_lead_writes",
                        policy_type |-> "data_access",
                        conditions |->
                            << Item("resource_type", [literal |-> s_lead]),
                               Item("action", [literal |-> s_write]) >>,
                        action |-> "deny", priority |-> 200] >>],
         [policy_type |-> "security", is_active |-> TRUE,
          rules |-> << [rule_id |-> "log_logins",
                        policy_type |-> "security",
                        conditions |->
                            << Item("action", [literal |-> s_login]) >>,
                        action |-> "log_only"] >>] >> }

\* the state after GovernanceSystem(db_session) over a database that holds
\* the stored policies and the role assignments, and no roles yet
Init ==
    /\ mt = MtIdle
    /\ ev = EvIdle
    /\ th = [t \in {1, 2} |-> [pc |-> "idle"]]
    /\ session = <<>>
    /\ workflows = <<>>
    /\ wf = WfIdle
    /\ wx = WxIdle
    /\ orch = OrchIdle
    /\ stored_policies \in GovStoredChoices
    /\ policies = ConstructPolicies(stored_policies)
    /\ engine = "ready"
    /\ roles = InitializeDefaultRoles({}, {}).roles
    /\ role_permissions = InitializeDefaultRoles({}, {}).role_permissions
    /\ user_roles \in InitialUserRoles
    /\ permission_cache = <<>>
    /\ cache_timestamps = <<>>
    /\ now = 0
    /\ audit_logs = <<>>
    /\ approval_queue = <<>>
    /\ ret = RetIdle

Next ==
    \/ \E u \in Users, c \in AuthCalls, ok \in BOOLEAN :
           AuthorizeAction(u, c, ok)
    \/ \E id \in DOMAIN approval_queue \cup {FreshApprovalId},
          u \in Users, d \in ApprovalDecisions, ok \in BOOLEAN :
           ApproveAction(id, u, d.approved, d.comments, ok)
    \/ \E u \in Users \cup {None, <<"s">>} : GetPendingApprovals(u)

Spec == Init /\ [][Next]_vars

\* ------------------------------------- approve_action, statement by statement
\* Two threads of one process call approve_action on the shared
\* GovernanceSystem; the method holds no lock, so the threads interleave
\* between its statements.
ThreadIds == {1, 2}
ThIdle == [t \in ThreadIds |-> [pc |-> "idle"]]

\* the call is made: pending records whether the request was pending then
ThreadCall(t, approval_id, approver_user_id, approved, comments) ==
    /\ engine = "ready"
    /\ th[t].pc = "idle"
    /\ th' = [th EXCEPT ![t] =
                 [pc |-> "check_found", approval_id |-> approval_id,
                  approver_user_id |-> approver_user_id,
                  approved |-> approved, comments |-> comments,
                  pending |-> approval_queue[approval_id].status = "pending"]]
    /\ UNCHANGED <<mt, stored_policies, session, workflows, wx, orch, wf, engine, ev, policies, govVars>>

ThreadDone(t, result) ==
    th' = [th EXCEPT ![t] = [pc |-> "done", result |-> result] @@ @]

ThreadGoto(t, pc) == th' = [th EXCEPT ![t].pc = pc]

\* if approval_id not in self.approval_queue: return ...
ThreadCheckFound(t) ==
    /\ th[t].pc = "check_found"
    /\ IF th[t].approval_id \in DOMAIN approval_queue
       THEN ThreadGoto(t, "check_permission")
       ELSE ThreadDone(t, [success |-> FALSE,
                           message |-> "Approval request not found"])
    /\ UNCHANGED <<mt, stored_policies, session, workflows, wx, orch, wf, engine, ev, policies, govVars>>

\* get_user_permissions, the cache test at its head: a hit returns the
\* cached set, a miss goes on to the query
ThreadCheckPermission(t) ==
    /\ th[t].pc = "check_permission"
    /\ th' = [th EXCEPT ![t] =
                 IF CacheHit(th[t].approver_user_id)
                 THEN [pc |-> "has_permission",
                       permissions |->
                           permission_cache[th[t].approver_user_id]] @@ @
                 ELSE [pc |-> "query"] @@ @]
    /\ UNCHANGED <<mt, stored_policies, session, workflows, wx, orch, wf, engine, ev, policies, govVars>>

\* permissions = set() filled from the UserRole and RolePermission queries
ThreadQueryPermissions(t) ==
    /\ th[t].pc = "query"
    /\ th' = [th EXCEPT ![t] =
                 [pc |-> "store_cache",
                  permissions |->
                      QueryUserPermissions(th[t].approver_user_id)] @@ @]
    /\ UNCHANGED <<mt, stored_policies, session, workflows, wx, orch, wf, engine, ev, policies, govVars>>

\* self.permission_cache[user_id] = permissions
ThreadStoreCache(t) ==
    /\ th[t].pc = "store_cache"
    /\ permission_cache' = Put(permission_cache, th[t].approver_user_id,
                               th[t].permissions)
    /\ ThreadGoto(t, "store_timestamp")
    /\ UNCHANGED <<mt, stored_policies, session, workflows, wx, orch, wf, engine, ev, policies, roles,
                   role_permissions, user_roles, cache_timestamps, now,
                   audit_logs, approval_queue, ret>>

\* self.cache_timestamps[user_id] = datetime.utcnow()
ThreadStoreTimestamp(t) ==
    /\ th[t].pc = "store_timestamp"
    /\ cache_timestamps' = Put(cache_timestamps, th[t].approver_user_id, now)
    /\ ThreadGoto(t, "has_permission")
    /\ UNCHANGED <<mt, stored_policies, session, workflows, wx, orch, wf, engine, ev, policies, roles,
                   role_permissions, user_roles, permission_cache, now,
                   audit_logs, approval_queue, ret>>

\* if not self.rbac.has_permission(...): return ...
ThreadHasPermission(t) ==
    /\ th[t].pc = "has_permission"
    /\ IF "approve_ai_decisions" \in th[t].permissions
       THEN ThreadGoto(t, "set_status")
       ELSE ThreadDone(t, [success |-> FALSE,
                           message |-> "Insufficient permissions to approve"])
    /\ UNCHANGED <<mt, stored_policies, session, workflows, wx, orch, wf, engine, ev, policies, govVars>>

\* approval_request[key] = value, one of the four assignments
ThreadSet(t, pc, key, value, next_pc) ==
    /\ th[t].pc = pc
    /\ approval_queue' =
           [approval_queue EXCEPT ![th[t].approval_id] =
               Put(@, key, value)]
    /\ ThreadGoto(t, next_pc)
    /\ UNCHANGED <<mt, stored_policies, session, workflows, wx, orch, wf, engine, ev, policies, rbacVars, now,
                   audit_logs, ret>>

ThreadSetStatus(t) ==
    ThreadSet(t, "set_status", "status",
              IF th[t].approved THEN "approved" ELSE "denied", "set_approver")
ThreadSetApprover(t) ==
    ThreadSet(t, "set_approver", "approver_user_id", th[t].approver_user_id,
              "set_approved_at")
ThreadSetApprovedAt(t) ==
    ThreadSet(t, "set_approved_at", "approved_at", now, "set_comments")
ThreadSetComments(t) ==
    ThreadSet(t, "set_comments", "comments", th[t].comments, "log")

\* log_event up to self.db.add(audit_log): the row joins the rows the shared
\* session holds for its next commit
ThreadLog(t) ==
    LET logged == LogEvent(audit_logs \o session, "ai_decision",
                      th[t].approver_user_id,
                      IF th[t].approved THEN s_approve_action
                      ELSE s_deny_action,
                      None, None,
                      [approval_id |-> th[t].approval_id,
                       original_user_id |->
                           approval_queue[th[t].approval_id].user_id,
                       original_action |->
                           approval_queue[th[t].approval_id].action,
                       approved |-> th[t].approved,
                       comments |-> th[t].comments],
                      <<>>)
    IN  /\ th[t].pc = "log"
        /\ session' = Append(session, logged[Len(logged)])
        /\ ThreadGoto(t, "commit")
        /\ UNCHANGED <<mt, stored_policies, workflows, wx, orch, wf, engine, ev, policies, govVars>>

\* self.db.commit(): every row the session holds is written, whichever
\* thread added it
ThreadCommit(t) ==
    /\ th[t].pc = "commit"
    /\ audit_logs' = audit_logs \o session
    /\ session' = <<>>
    /\ ThreadGoto(t, "return")
    /\ UNCHANGED <<mt, stored_policies, workflows, wx, orch, wf, engine, ev, policies, rbacVars, now,
                   approval_queue, ret>>

\* log_event returns and approve_action returns its result
ThreadReturn(t) ==
    /\ th[t].pc = "return"
    /\ ThreadDone(t, [success |-> TRUE, approved |-> th[t].approved,
                      message |-> IF th[t].approved THEN "Action approved"
                                  ELSE "Action denied"])
    /\ UNCHANGED <<mt, stored_policies, session, workflows, wx, orch, wf, engine, ev, policies, govVars>>

\* both users hold approve_ai_decisions through sales_manager
InitConc ==
    /\ mt = MtIdle
    /\ ev = EvIdle
    /\ th = ThIdle
    /\ session = <<>>
    /\ workflows = <<>>
    /\ wf = WfIdle
    /\ wx = WxIdle
    /\ orch = OrchIdle
    /\ stored_policies = <<>>
    /\ policies = ConstructPolicies(stored_policies)
    /\ engine = "ready"
    /\ roles = InitializeDefaultRoles({}, {}).roles
    /\ role_permissions = InitializeDefaultRoles({}, {}).role_permissions
    /\ user_roles = { <<u_ann, "sales_manager">>, <<u_bob, "sales_manager">> }
    /\ permission_cache = <<>>
    /\ cache_timestamps = <<>>
    /\ now = 0
    /\ audit_logs = <<>>
    /\ approval_queue = <<>>
    /\ ret = RetIdle

\* one authorize_action call, then two concurrent approve_action calls
NextConc ==
    \/ /\ audit_logs = <<>>
       /\ \E u \in Users, c \in AuthCalls : AuthorizeAction(u, c, TRUE)
    \/ \E t \in ThreadIds, id \in DOMAIN approval_queue, u \in Users,
          d \in ApprovalDecisions :
           ThreadCall(t, id, u, d.approved, d.comments)
    \/ \E t \in ThreadIds : ThreadCheckFound(t)
    \/ \E t \in ThreadIds : ThreadCheckPermission(t)
    \/ \E t \in ThreadIds : ThreadQueryPermissions(t)
    \/ \E t \in ThreadIds : ThreadStoreCache(t)
    \/ \E t \in ThreadIds : ThreadStoreTimestamp(t)
    \/ \E t \in ThreadIds : ThreadHasPermission(t)
    \/ \E t \in ThreadIds : ThreadSetStatus(t)
    \/ \E t \in ThreadIds : ThreadSetApprover(t)
    \/ \E t \in ThreadIds : ThreadSetApprovedAt(t)
    \/ \E t \in ThreadIds : ThreadSetComments(t)
    \/ \E t \in ThreadIds : ThreadLog(t)
    \/ \E t \in ThreadIds : ThreadCommit(t)
    \/ \E t \in ThreadIds : ThreadReturn(t)

SpecConc == InitConc /\ [][NextConc]_vars

\* ------------------------------------------------------ RBACManager harness
\* the Role and RolePermission tables a manager is constructed over: empty,
\* holding a viewer role that was set up by hand, or holding a permission
\* row of a viewer role that has no Role row
RoleStoreChoices ==
    { [roles |-> {}, role_permissions |-> {}],
      [roles |-> {"viewer"},
       role_permissions |-> { <<"viewer", "read_leads">>,
                              <<"viewer", "export_data">> }],
      [roles |-> {}, role_permissions |-> { <<"viewer", "read_leads">> }] }

\* the role ids callers pass: a seeded role and one that names no role
CalledRoles == {"sales_manager", "ghost"}

\* a store before any RBACManager was constructed over it
InitRBAC ==
    /\ mt = MtIdle
    /\ ev = EvIdle
    /\ th = [t \in {1, 2} |-> [pc |-> "idle"]]
    /\ session = <<>>
    /\ workflows = <<>>
    /\ wf = WfIdle
    /\ wx = WxIdle
    /\ orch = OrchIdle
    /\ stored_policies = <<>>
    /\ policies = <<>>
    /\ engine = "new"
    /\ \E store \in RoleStoreChoices :
           /\ roles = store.roles
           /\ role_permissions = store.role_permissions
    /\ user_roles = {}
    /\ permission_cache = <<>>
    /\ cache_timestamps = <<>>
    /\ now = 0
    /\ audit_logs = <<>>
    /\ approval_queue = <<>>
    /\ ret = RetIdle

NextRBAC ==
    \/ RBACManagerInit
    \/ \E u \in Users, r \in CalledRoles, fk \in BOOLEAN : AssignRole(u, r, fk)
    \/ \E u \in Users, r \in CalledRoles : RevokeRole(u, r)
    \/ \E u \in Users : GetUserPermissionsCall(u)
    \/ Tick

SpecRBAC == InitRBAC /\ [][NextRBAC]_vars


\* ---------------------------------------------------------- WorkflowEngine
\* all(dep in execution.completed_steps for dep in step.dependencies)
DependenciesMet(step, completed_steps) ==
    \A i \in DOMAIN step.dependencies : step.dependencies[i] \in completed_steps

\* _check_step_conditions: every condition names a completed step; the
\* expected result of the condition is read and not compared
CheckStepConditions(step, completed_steps) ==
    \A i \in DOMAIN step.conditions :
        step.conditions[i].step \in completed_steps

\* the ids of a list of steps, in order
RECURSIVE StepIds(_)
StepIds(steps) ==
    IF steps = <<>> THEN <<>> ELSE <<Head(steps).id>> \o StepIds(Tail(steps))

\* the step remaining_steps holds under an id: the dict comprehension keeps,
\* of the steps of workflow.steps with the id, the last
StepOf(steps, id) ==
    steps[CHOOSE i \in DOMAIN steps :
              /\ steps[i].id = id
              /\ \A j \in DOMAIN steps : steps[j].id = id => j <= i]

\* {step.id: step for step in workflow.steps}.values() from the k-th step
\* on: one step for every id, in the order in which the ids first come
RECURSIVE RemainingSteps(_, _)
RemainingSteps(steps, k) ==
    IF k > Len(steps) THEN <<>>
    ELSE (IF \E j \in 1..(k - 1) : steps[j].id = steps[k].id THEN <<>>
          ELSE <<StepOf(steps, steps[k].id)>>)
         \o RemainingSteps(steps, k + 1)

\* the ready list built on any() of the dependencies
ReadyStepsAnyDependency(steps, remaining_steps, completed_steps) ==
    StepIds(SelectSeq(RemainingSteps(steps, 1), LAMBDA step :
        /\ step.id \in remaining_steps
        /\ \/ step.dependencies = <<>>
           \/ \E i \in DOMAIN step.dependencies :
                  step.dependencies[i] \in completed_steps
        /\ CheckStepConditions(step, completed_steps)))

\* ready_steps: the steps of remaining_steps.values(), in the order of the
\* dict, whose dependencies are all completed and whose conditions are met
ReadySteps(steps, remaining_steps, completed_steps) ==
    StepIds(SelectSeq(RemainingSteps(steps, 1), LAMBDA step :
        /\ step.id \in remaining_steps
        /\ DependenciesMet(step, completed_steps)
        /\ CheckStepConditions(step, completed_steps)))

\* what awaiting a step's executor can end in: a result with success True,
\* a result with success False, an Exception (raised by the executor or for
\* a missing executor), a TimeoutError (that of asyncio.wait_for, which
\* cancels the call that is still in flight, or one the executor raises
\* itself), or a BaseException that is no Exception
\* (asyncio.CancelledError), which no except clause of _execute_step and
\* _execute_workflow catches
StepOutcomes == {"success", "unsuccessful", "raises", "timeout", "cancelled"}

\* the condition_met entry of a result: absent, True or False
ConditionOutcomes == {"none", "true", "false"}

\* the exception an outcome raises
ExceptionOf(outcome) ==
    IF outcome = "timeout" THEN "TimeoutError"
    ELSE IF outcome = "cancelled" THEN "CancelledError" ELSE "Exception"

\* str(e) of the exception an outcome raises: a TimeoutError carries no
\* message
StrOfException(outcome) ==
    IF outcome = "timeout" THEN "" ELSE "executor error"

\* step.error as the except clauses of _execute_step leave it
ExecuteStepError(outcome) ==
    IF outcome = "timeout" THEN "Step execution timed out"
    ELSE StrOfException(outcome)

\* step.error = str(e) in the for loop replaces what _execute_step wrote
LoopError(step_error, outcome) == StrOfException(outcome)

\* the remaining steps keep a step that was filed
KeepStep(remaining_steps, id) == remaining_steps

\* remaining_steps.pop(step.id)
PopStep(remaining_steps, id) == remaining_steps \ {id}

\* the final status with an unfinished run left active
FinalStatusNeverPaused(failed_steps, remaining_steps) ==
    IF failed_steps # {} THEN "failed"
    ELSE IF remaining_steps = {} THEN "completed" ELSE "active"

\* the final status testing the remaining steps before the failed ones
FinalStatusRemainingFirst(failed_steps, remaining_steps) ==
    IF remaining_steps = {} THEN "completed"
    ELSE IF failed_steps # {} THEN "failed" ELSE "paused"

\* "Determine final status"
FinalStatusOf(failed_steps, remaining_steps) ==
    IF failed_steps # {} THEN "failed"
    ELSE IF remaining_steps = {} THEN "completed" ELSE "paused"

\* self.running_executions.discard(execution.id)
Discard(running_executions, id) == running_executions \ {id}

\* the id of the one execution that is followed
ExecutionId == "e1"

\* the id workflows are registered under after construction
WorkflowId == "lead_qualification_v1"

\* register_workflow: the definition under the id is replaced
RegisterWorkflow(workflow_id, steps) ==
    /\ workflows' = Put(workflows, workflow_id, steps)
    /\ UNCHANGED <<mt, stored_policies, session, wx, orch, wf, engine, ev, th, policies, govVars>>

\* trigger_workflow: the execution is made and a task for _execute_workflow
\* is created, which has not started when trigger_workflow returns (it
\* raises ValueError, making no execution, for an id that is not registered)
TriggerWorkflow(workflow_id) ==
    /\ wf.pc = "idle"
    /\ workflow_id \in DOMAIN workflows
    /\ wf' = [pc |-> "scheduled",
              id |-> ExecutionId,
              workflow_id |-> workflow_id,
              running_executions |-> {},
              completed_at |-> "none",
              status |-> "active",
              current_step |-> "none",
              completed_steps |-> {},
              failed_steps |-> {}]
    /\ UNCHANGED <<mt, stored_policies, session, workflows, wx, orch, engine, ev, th, policies, govVars>>

\* the task starts: _execute_workflow up to its while loop, over the steps
\* the id is registered with at that time. With no workflow under the id the
\* run returns at once: the status is failed, completed_at is not written,
\* and the finally clause discards the id
ExecuteWorkflow ==
    LET found == wf.workflow_id \in DOMAIN workflows
        steps == IF found THEN workflows[wf.workflow_id] ELSE <<>>
        ids == { steps[k].id : k \in DOMAIN steps }
    IN  /\ wf.pc = "scheduled"
        /\ wf' = [pc |-> IF found THEN "while" ELSE "done",
                  status |-> IF found THEN wf.status ELSE "failed",
                  running_executions |->
                      IF found THEN wf.running_executions \cup {wf.id}
                      ELSE Discard(wf.running_executions \cup {wf.id}, wf.id),
                  steps |-> steps,
                  remaining_steps |-> ids,
                  ready_steps |-> <<>>,
                  step_status |-> [i \in ids |-> "pending"],
                  result |-> [i \in ids |-> "none"],
                  condition_met |-> [i \in ids |-> "none"],
                  error |-> [i \in ids |-> "none"],
                  exception |-> [i \in ids |-> "none"],
                  calls |-> [i \in ids |-> 0]] @@ wf
        /\ UNCHANGED <<mt, stored_policies, session, workflows, wx, orch, engine, ev, th, policies, govVars>>

\* the test of the while loop and the ready_steps list of one iteration
WhileTest ==
    LET ready == ReadySteps(wf.steps, wf.remaining_steps, wf.completed_steps)
    IN  /\ wf.pc = "while"
        /\ wf' = IF wf.remaining_steps # {} /\ wf.status = "active"
                    /\ ready # <<>>
                 THEN [wf EXCEPT !.pc = "for", !.ready_steps = ready]
                 ELSE [wf EXCEPT !.pc = "final"]
        /\ UNCHANGED <<mt, stored_policies, session, workflows, wx, orch, engine, ev, th, policies, govVars>>

\* the for loop takes its next step; _execute_step marks it running and
\* calls its executor
StartStep ==
    /\ wf.pc = "for"
    /\ wf' = IF wf.ready_steps = <<>>
             THEN [wf EXCEPT !.pc = "while"]
             ELSE [wf EXCEPT !.pc = "await",
                             !.current_step = Head(wf.ready_steps),
                             !.step_status[Head(wf.ready_steps)] = "running",
                             !.calls[Head(wf.ready_steps)] = @ + 1]
    /\ UNCHANGED <<mt, stored_policies, session, workflows, wx, orch, engine, ev, th, policies, govVars>>

\* the executor returns or raises, or wait_for times out; _execute_step and
\* the try/except of the for loop file the step. A CancelledError passes
\* every except clause: the step stays running and unfiled, the status and
\* completed_at stay as they were, the finally clause discards the id, and
\* the exception ends the task
FinishStep(outcome, condition_met) ==
    LET id == wf.current_step
    IN  /\ wf.pc = "await"
        /\ condition_met # "none" => outcome = "success"
        /\ wf' = IF outcome = "cancelled"
                 THEN [wf EXCEPT !.pc = "raised",
                                 !.exception[id] = ExceptionOf(outcome),
                                 !.running_executions = Discard(@, wf.id)]
                 ELSE IF outcome \in {"raises", "timeout"}
                 THEN [wf EXCEPT !.pc = "for",
                                 !.ready_steps = Tail(@),
                                 !.step_status[id] = "failed",
                                 !.error[id] =
                                     LoopError(ExecuteStepError(outcome),
                                               outcome),
                                 !.exception[id] =
                                     ExceptionOf(outcome),
                                 !.failed_steps = @ \cup {id},
                                 !.remaining_steps = PopStep(@, id)]
                 ELSE [wf EXCEPT !.pc = "for",
                                 !.ready_steps = Tail(@),
                                 !.step_status[id] = "completed",
                                 !.result[id] = outcome,
                                 !.condition_met[id] = condition_met,
                                 !.completed_steps = @ \cup {id},
                                 !.remaining_steps = PopStep(@, id)]
        /\ UNCHANGED <<mt, stored_policies, session, workflows, wx, orch, engine, ev, th, policies, govVars>>

\* "Determine final status", completed_at, and the finally clause
FinalStatus ==
    /\ wf.pc = "final"
    /\ wf' = [wf EXCEPT !.pc = "done",
                        !.status = FinalStatusOf(wf.failed_steps,
                                                 wf.remaining_steps),
                        !.completed_at = "utcnow",
                        !.running_executions = Discard(@, wf.id)]
    /\ UNCHANGED <<mt, stored_policies, session, workflows, wx, orch, engine, ev, th, policies, govVars>>

\* a condition on the result of an earlier step
Condition(step, result) == [step |-> step, result |-> result]

\* a workflow step with an id, dependencies and conditions; a
\* timeout_seconds of 0 stands for the falsy values None and 0
Step(id, dependencies, conditions) ==
    [id |-> id, dependencies |-> dependencies, conditions |-> conditions,
     timeout_seconds |-> 0]

\* a workflow step with a timeout
TimedStep(id, dependencies, conditions, timeout_seconds) ==
    [Step(id, dependencies, conditions)
        EXCEPT !.timeout_seconds = timeout_seconds]

\* the steps of lead_qualification_v1
LeadQualification ==
    << Step("enrich_lead", <<>>, <<>>),
       Step("score_lead", <<"enrich_lead">>, <<>>),
       Step("check_score", <<"score_lead">>, <<>>),
       Step("send_welcome_email", <<"check_score">>,
            << Condition("check_score", TRUE) >>),
       Step("assign_to_sales", <<"send_welcome_email">>, <<>>) >>

\* the steps of opportunity_followup_v1
OpportunityFollowup ==
    << Step("wait_initial", <<>>, <<>>),
       Step("send_followup_email", <<"wait_initial">>, <<>>),
       Step("schedule_demo", <<"send_followup_email">>, <<>>) >>

\* self.workflows after _load_default_workflows
DefaultWorkflows ==
    [lead_qualification_v1 |-> LeadQualification,
     opportunity_followup_v1 |-> OpportunityFollowup]

\* the step lists of the registered workflows: a chain a -> b with an
\* independent c; the same with b listed first; c after both a and b; b
\* behind a condition on a; b after a step that is no step of the workflow;
\* a with a timeout before b; the id a listed twice, the second time after
\* b and with a timeout; no step at all; the lead qualification
WorkflowChoices ==
    { << Step("a", <<>>, <<>>), Step("b", <<"a">>, <<>>),
         Step("c", <<>>, <<>>) >>,
      << Step("b", <<"a">>, <<>>), Step("a", <<>>, <<>>),
         Step("c", <<"b">>, <<>>) >>,
      << Step("a", <<>>, <<>>), Step("b", <<>>, <<>>),
         Step("c", <<"a", "b">>, <<>>) >>,
      << Step("a", <<>>, <<>>),
         Step("b", <<>>, << Condition("a", TRUE) >>) >>,
      << Step("a", <<>>, <<>>), Step("b", <<"z">>, <<>>) >>,
      << TimedStep("a", <<>>, <<>>, 30), Step("b", <<>>, <<>>) >>,
      << Step("a", <<>>, <<>>), Step("b", <<>>, <<>>),
         TimedStep("a", <<"b">>, <<>>, 30) >>,
      << >>,
      LeadQualification }

\* a WorkflowEngine after construction, which registers the default
\* workflows
InitWorkflow ==
    /\ mt = MtIdle
    /\ workflows = DefaultWorkflows
    /\ ev = EvIdle
    /\ stored_policies = <<>>
    /\ policies = <<>>
    /\ engine = "new"
    /\ GovIdle

\* the steps of the task that runs _execute_workflow
RunWorkflow ==
    \/ ExecuteWorkflow
    \/ WhileTest
    \/ StartStep
    \/ \E outcome \in StepOutcomes, condition_met \in ConditionOutcomes :
           FinishStep(outcome, condition_met)
    \/ FinalStatus

NextWorkflow ==
    \/ \E steps \in WorkflowChoices : RegisterWorkflow(WorkflowId, steps)
    \/ \E workflow_id \in DOMAIN workflows : TriggerWorkflow(workflow_id)
    \/ RunWorkflow

SpecWorkflow == InitWorkflow /\ [][NextWorkflow]_vars

\* the event loop runs the task that was created, and resumes it when the
\* executor it awaits returned or raised
SpecWorkflowFair == SpecWorkflow /\ WF_vars(RunWorkflow)

\* ------------------------------------------- handle_event: executions sharing
\* the workflows registered in the engine after its construction, whose
\* triggers the events match: w1 runs a then b, w2 runs a
RegisteredWorkflows ==
    [w1 |-> << Step("a", <<>>, <<>>), Step("b", <<"a">>, <<>>) >>,
     w2 |-> << Step("a", <<>>, <<>>) >>]

\* the WorkflowStep objects of the registered definitions
StepObjects ==
    UNION { { <<w, workflows[w][i].id>> : i \in DOMAIN workflows[w] } :
            w \in DOMAIN workflows }

\* the workflows an event triggers, one entry per matching trigger: two
\* workflows, or one workflow through two of its triggers
EventChoices == { <<"w1", "w2">>, <<"w1", "w1">> }

\* data=context_data: the context holds the dict it was given, not a copy
ContextData(context_data) == context_data

\* the batch an execution goes on with after a step was filed: the rest of
\* the for loop, else the ready_steps of the next iteration of the while
NextBatch(x, steps) ==
    IF x.ready_steps # <<>> THEN x.ready_steps
    ELSE IF x.remaining_steps # {} /\ x.status = "active"
         THEN ReadySteps(steps, x.remaining_steps, x.completed_steps)
         ELSE <<>>

\* an execution runs up to its next await of an executor, or to its end
RunToAwait(x, steps) ==
    IF NextBatch(x, steps) # <<>>
    THEN [x EXCEPT !.pc = "await",
                   !.ready_steps = NextBatch(x, steps),
                   !.current_step = Head(NextBatch(x, steps))]
    ELSE [x EXCEPT !.pc = "done",
                   !.status = FinalStatusOf(x.failed_steps,
                                            x.remaining_steps),
                   !.completed_at = "utcnow"]

\* _execute_step marks the step object of the definition running
MarkRunning(step, x) ==
    IF x.pc = "await"
    THEN [step EXCEPT ![<<x.workflow_id, x.current_step>>].status = "running"]
    ELSE step

\* handle_event: trigger_workflow for every matching trigger, each with the
\* event_data of the caller
HandleEvent(workflow_ids) ==
    /\ wx.pc = "idle"
    /\ \A e \in DOMAIN workflow_ids : workflow_ids[e] \in DOMAIN workflows
    /\ wx' = [pc |-> "running",
              dicts |-> [d \in {"event_data"} |-> <<>>],
              step |-> [o \in StepObjects |->
                           [status |-> "pending", result |-> "none"]],
              running_executions |-> {},
              executions |->
                  [e \in DOMAIN workflow_ids |->
                      [workflow_id |-> workflow_ids[e],
                       data |-> ContextData("event_data"),
                       pc |-> "scheduled",
                       status |-> "active",
                       remaining_steps |-> {},
                       ready_steps |-> <<>>,
                       current_step |-> "none",
                       completed_steps |-> {},
                       failed_steps |-> {},
                       completed_at |-> "none"]]]
    /\ UNCHANGED <<mt, stored_policies, session, workflows, orch, wf, engine, ev, th, policies, govVars>>

\* the task of an execution starts: _execute_workflow up to its first await
RunTask(e) ==
    /\ wx.pc = "running"
    /\ e \in DOMAIN wx.executions
    /\ wx.executions[e].pc = "scheduled"
    /\ LET x == wx.executions[e]
           steps == workflows[x.workflow_id]
           run == RunToAwait([x EXCEPT !.remaining_steps =
                                  { steps[i].id : i \in DOMAIN steps }],
                             steps)
       IN  wx' = [wx EXCEPT !.executions[e] = run,
                            !.step = MarkRunning(@, run),
                            !.running_executions =
                                IF run.pc = "done" THEN Discard(@, e)
                                ELSE @ \cup {e}]
    /\ UNCHANGED <<mt, stored_policies, session, workflows, orch, wf, engine, ev, th, policies, govVars>>

\* the executor an execution awaits returns or raises: the step is filed and
\* the execution runs on to its next await; a CancelledError files nothing
\* and ends the task. What a successful step merges into context.data is
\* kept as the key of the step with the execution that wrote it last
ResumeStep(e, outcome) ==
    /\ wx.pc = "running"
    /\ e \in DOMAIN wx.executions
    /\ wx.executions[e].pc = "await"
    /\ LET x == wx.executions[e]
           id == x.current_step
           o == <<x.workflow_id, id>>
           steps == workflows[x.workflow_id]
           filed == IF outcome \in {"raises", "timeout"}
                    THEN [x EXCEPT !.ready_steps = Tail(@),
                                   !.failed_steps = @ \cup {id},
                                   !.remaining_steps = PopStep(@, id)]
                    ELSE [x EXCEPT !.ready_steps = Tail(@),
                                   !.completed_steps = @ \cup {id},
                                   !.remaining_steps = PopStep(@, id)]
           run == IF outcome = "cancelled" THEN [x EXCEPT !.pc = "raised"]
                  ELSE RunToAwait(filed, steps)
           written == IF outcome = "cancelled" THEN wx.step
                      ELSE IF outcome \in {"raises", "timeout"}
                      THEN [wx.step EXCEPT ![o].status = "failed"]
                      ELSE [wx.step EXCEPT ![o].status = "completed",
                                           ![o].result = outcome]
       IN  wx' = [wx EXCEPT
                     !.executions[e] = run,
                     !.step = MarkRunning(written, run),
                     !.dicts[x.data] =
                         IF outcome = "success" THEN Put(@, id, e) ELSE @,
                     !.running_executions =
                         IF run.pc \in {"done", "raised"} THEN Discard(@, e)
                         ELSE @]
    /\ UNCHANGED <<mt, stored_policies, session, workflows, orch, wf, engine, ev, th, policies, govVars>>

\* a WorkflowEngine after construction and the registration of w1 and w2
InitEvents ==
    /\ mt = MtIdle
    /\ workflows = DefaultWorkflows @@ RegisteredWorkflows
    /\ ev = EvIdle
    /\ stored_policies = <<>>
    /\ policies = <<>>
    /\ engine = "new"
    /\ GovIdle

NextEvents ==
    \/ \E workflow_ids \in EventChoices : HandleEvent(workflow_ids)
    \/ \E e \in {1, 2} : RunTask(e)
    \/ \E e \in {1, 2}, outcome \in StepOutcomes : ResumeStep(e, outcome)

SpecEvents == InitEvents /\ [][NextEvents]_vars

\* ------------------------------------------------------ AIOrchestrator.act
\* an AgentTask, by the field act reads and by whether _execute_agent_task
\* raises for it (a commit that fails, a context of None)
AgentTask(approval_required, raises) ==
    [approval_required |-> approval_required, raises |-> raises]

\* a WorkflowStep of the orchestrator
OrchStep(step_id, agent_tasks) ==
    [step_id |-> step_id, agent_tasks |-> agent_tasks]

\* json.dumps([step.__dict__ for step in workflow_steps]): an AgentTask
\* object is not JSON serializable, None and the empty list are
JsonSerializable(workflow_steps) ==
    \A i \in DOMAIN workflow_steps :
        \/ IsNone(workflow_steps[i].agent_tasks)
        \/ Items(workflow_steps[i].agent_tasks) = <<>>

\* _execute_workflow_step raises: "for task in step.agent_tasks" over None
\* (what a task raises is caught inside the step)
StepRaises(step) == IsNone(step.agent_tasks)

\* the step_result of _execute_workflow_step over a list of tasks: a task
\* that raises is counted as failed and its approval_required is not read
ExecuteWorkflowStep(step) ==
    LET tasks == Items(step.agent_tasks)
        failed == { k \in DOMAIN tasks : tasks[k].raises }
    IN  [step_id |-> step.step_id,
         status |-> IF failed = {} THEN "completed" ELSE "failed",
         tasks_completed |-> Len(tasks) - Cardinality(failed),
         tasks_failed |-> Cardinality(failed),
         requires_approval |->
             \E k \in DOMAIN tasks \ failed : tasks[k].approval_required]

\* step_result["requires_approval"] of _execute_workflow_step
RequiresApprovalOf(step) ==
    /\ ~IsNone(step.agent_tasks)
    /\ ExecuteWorkflowStep(step).requires_approval

\* the longest workflow act is called with
MaxSteps == 3

\* the kinds of step act is called with: no task, the task list missing, a
\* task that requires approval, one that does not, one that requires
\* approval and raises
StepKinds ==
    { PyList(<<>>), None, PyList(<<AgentTask(TRUE, FALSE)>>),
      PyList(<<AgentTask(FALSE, FALSE)>>),
      PyList(<<AgentTask(TRUE, TRUE)>>) }

StepName(i) == <<"s1", "s2", "s3", "s4">>[i]

\* the workflows act is called with
ActWorkflows ==
    UNION { { [i \in 1..n |-> OrchStep(StepName(i), kinds[i])] :
                  kinds \in [1..n -> StepKinds] } : n \in 0..MaxSteps }

\* act up to its for loop: the Workflow record is built and committed
ActCall(workflow_steps, commit_fails_at) ==
    /\ orch.pc = "idle"
    /\ orch' =
         IF ~JsonSerializable(workflow_steps)
         THEN [pc |-> "done",
               workflow_steps |-> workflow_steps,
               commit_fails_at |-> commit_fails_at,
               raised |-> "TypeError",
               executed |-> <<>>,
               i |-> 0,
               execution_results |-> None]
         ELSE [pc |-> "loop",
               workflow_steps |-> workflow_steps,
               commit_fails_at |-> commit_fails_at,
               raised |-> "none",
               executed |-> <<>>,
               i |-> 1,
               execution_results |->
                   [steps_completed |-> 0, steps_failed |-> 0,
                    current_step |-> 0, status |-> "in_progress"]]
    /\ UNCHANGED <<mt, stored_policies, session, workflows, wx, wf, engine, ev, th, policies, govVars>>

\* the except clause of the for loop
StepFailed(execution_results) ==
    [execution_results EXCEPT !.steps_failed = @ + 1, !.status = "failed"]

\* one iteration of the for loop over workflow_steps
ActStep ==
    /\ orch.pc = "loop"
    /\ orch' =
         IF orch.i > Len(orch.workflow_steps)
         THEN [orch EXCEPT !.pc = "end"]
         ELSE LET step == orch.workflow_steps[orch.i]
                  counted == [orch.execution_results EXCEPT
                                 !.steps_completed = @ + 1,
                                 !.current_step = orch.i]
              IN  IF StepRaises(step)
                  THEN [orch EXCEPT
                          !.pc = "end",
                          !.executed = Append(@, step.step_id),
                          !.execution_results = StepFailed(@)]
                  ELSE IF orch.commit_fails_at = orch.i
                  THEN [orch EXCEPT
                          !.pc = "end",
                          !.executed = Append(@, step.step_id),
                          !.execution_results = StepFailed(counted)]
                  ELSE IF RequiresApprovalOf(step)
                  THEN [orch EXCEPT
                          !.pc = "end",
                          !.executed = Append(@, step.step_id),
                          !.execution_results =
                              [counted EXCEPT !.status = "waiting_approval"]]
                  ELSE [orch EXCEPT
                          !.i = @ + 1,
                          !.executed = Append(@, step.step_id),
                          !.execution_results = counted]
    /\ UNCHANGED <<mt, stored_policies, session, workflows, wx, wf, engine, ev, th, policies, govVars>>

\* "Mark workflow as completed if all steps succeeded", and the return
ActReturn ==
    /\ orch.pc = "end"
    /\ orch' = [orch EXCEPT
                   !.pc = "done",
                   !.execution_results.status =
                       IF @ = "in_progress" THEN "completed" ELSE @]
    /\ UNCHANGED <<mt, stored_policies, session, workflows, wx, wf, engine, ev, th, policies, govVars>>

\* an AIOrchestrator after construction: it builds no WorkflowEngine and
\* registers no workflow
InitAct ==
    /\ mt = MtIdle
    /\ workflows = <<>>
    /\ ev = EvIdle
    /\ stored_policies = <<>>
    /\ policies = <<>>
    /\ engine = "new"
    /\ GovIdle

NextAct ==
    \/ \E workflow_steps \in ActWorkflows, commit_fails_at \in 0..MaxSteps :
           ActCall(workflow_steps, commit_fails_at)
    \/ ActStep
    \/ ActReturn

SpecAct == InitAct /\ [][NextAct]_vars

\* ------------------------------------------------ properties: policy engine
\* the rules of the evaluated type that match the evaluated context
EvRules == IF ev.policy_type \in DOMAIN policies
           THEN policies[ev.policy_type] ELSE <<>>
EvMatching == { i \in DOMAIN EvRules : Matches(EvRules[i], ev.context) }
EvMatchedActions == { EvRules[i].action : i \in EvMatching }

Rank(a) == CASE a = "deny" -> 4
             [] a = "require_approval" -> 3
             [] a = "redact" -> 2
             [] a = "log_only" -> 1
             [] OTHER -> 0

MostRestrictive(S) ==
    IF S = {} THEN "allow"
    ELSE CHOOSE a \in S : \A b \in S : Rank(a) >= Rank(b)

\* C1: absent a matching DENY rule, evaluate_policies returns the most
\* restrictive action among all matching rules, in the order
\* REQUIRE_APPROVAL > REDACT > LOG_ONLY > ALLOW, whatever the order in which
\* the matching rules are evaluated.
C1_MostRestrictiveWins ==
    (ev.done /\ "deny" \notin EvMatchedActions)
        => ev.result.action = MostRestrictive(EvMatchedActions)

\* C2: whenever an enabled rule of the evaluated type matches with action
\* DENY, evaluate_policies returns DENY, whatever non-DENY rules match
\* before it.
C2_DenyAlwaysWins ==
    (ev.done /\ "deny" \in EvMatchedActions) => ev.result.action = "deny"

\* C2 witness: a DENY rule matched after a matching non-DENY rule of lower
\* priority number, and the evaluation returned DENY.
C2_Witness ==
    /\ ev.done
    /\ ev.result.action = "deny"
    /\ Len(ev.result.violations) >= 2
    /\ ev.result.violations[1].action = "require_approval"

\* C3: after construction, evaluate_policies visits the rules of a policy
\* type in ascending priority order: no rule is visited, or listed in the
\* policy type's rule list, after a rule of strictly greater priority number.
C3_AscendingPriorityOrder ==
    /\ engine = "ready" =>
          \A t \in DOMAIN policies : \A i, j \in DOMAIN policies[t] :
              i < j => policies[t][i].priority <= policies[t][j].priority
    /\ ev.done =>
          \A i, j \in DOMAIN ev.result.visited :
              i < j => ev.result.visited[i].priority
                          <= ev.result.visited[j].priority

\* C4: PolicyRule.matches returns true only if every condition key of the
\* rule is present in the context and the context value satisfies the key's
\* matcher.
C4_MatchNeedsEveryKeyPresent ==
    (mt.done /\ mt.result) =>
        \A i \in DOMAIN mt.rule.conditions :
            /\ mt.rule.conditions[i].key \in DOMAIN mt.context
            /\ ConditionHolds(mt.rule.conditions[i].value,
                              mt.context[mt.rule.conditions[i].key])

\* ---------------------------------------------- properties: authorization
\* what a call of authorize_action(u, c.action, c.resource_type, None,
\* c.context) meets in the current state
CallContext(u, c) ==
    FullContext(u, c.action, c.resource_type, None, c.context)
CallPermission(c) == MapActionToPermission(c.action, c.resource_type)
\* the permission check passes: nothing is required, or the user's roles
\* grant the required permission in the database
PermissionCheckPasses(u, c) ==
    \/ CallPermission(c) = "none"
    \/ CallPermission(c) \in QueryUserPermissions(u)
CallEvaluation(u, c) ==
    EvaluationResult(policies, MapActionToPolicyType(c.action, c.resource_type),
                     CallContext(u, c))
WinningAction(u, c) == CallEvaluation(u, c).action

RetResult == IF "result" \in DOMAIN ret THEN ret.result ELSE <<>>
Reason(r) == IF "reason" \in DOMAIN r THEN r.reason ELSE "none"
Returned(op) == ret.op = op /\ ~ret.raised
LastAudit(logs) == logs[Len(logs)]

\* C5: when the required permission is not held, authorize_action returns
\* authorized=false with reason insufficient_permissions, evaluates no
\* policy, writes exactly one PERMISSION_DENIED audit entry that carries no
\* policy violations, and creates no approval request.
C5_PermissionDeniedIsTerminal ==
    [][\A u \in Users, c \in AuthCalls :
         (AuthorizeAction(u, c, TRUE) /\ ~PermissionCheckPasses(u, c)) =>
            /\ ret'.result.authorized = FALSE
            /\ Reason(ret'.result) = "insufficient_permissions"
            /\ ~ret'.evaluated
            /\ Len(audit_logs') = Len(audit_logs) + 1
            /\ SubSeq(audit_logs', 1, Len(audit_logs)) = audit_logs
            /\ LastAudit(audit_logs').event_type = "permission_denied"
            /\ LastAudit(audit_logs').policy_violations = <<>>
            /\ approval_queue' = approval_queue]_vars

\* C5 witness: ann, whose only role is the seeded viewer role, was refused
\* (write, lead).
C5_Witness ==
    /\ Returned("authorize_action")
    /\ Reason(RetResult) = "insufficient_permissions"
    /\ Len(audit_logs) >= 1
    /\ LastAudit(audit_logs).user_id = u_ann
    /\ LastAudit(audit_logs).action = s_write
    /\ LastAudit(audit_logs).resource_type = s_lead
    /\ { ur[2] : ur \in { x \in user_roles : x[1] = u_ann } } = {"viewer"}

\* C6: every authorize_action call that returns appends exactly one audit
\* entry, whatever the outcome, and when policies were evaluated the entry
\* embeds the matched-rule list of the evaluation.
C6_OneAuditEntryPerCall ==
    [][\A u \in Users, c \in AuthCalls :
         AuthorizeAction(u, c, TRUE) =>
            /\ Len(audit_logs') = Len(audit_logs) + 1
            /\ SubSeq(audit_logs', 1, Len(audit_logs)) = audit_logs
            /\ LastAudit(audit_logs').user_id = u
            /\ LastAudit(audit_logs').action = c.action
            /\ PermissionCheckPasses(u, c) =>
                  LastAudit(audit_logs').policy_violations
                      = CallEvaluation(u, c).violations]_vars

\* C6 witness: a returned call whose audit entry embeds two matched rules.
C6_Witness ==
    /\ Returned("authorize_action")
    /\ ret.evaluated
    /\ Len(audit_logs) >= 1
    /\ Len(LastAudit(audit_logs).policy_violations) = 2

\* C7: a returning authorize_action call adds an approval request exactly
\* when the permission check passed and the winning action is
\* REQUIRE_APPROVAL: then one new pending request under a fresh id, returned
\* with authorized=false and reason requires_approval; otherwise, and when
\* the call raises, the approval queue is unchanged.
C7_ApprovalQueuedIffRequired ==
    [][\A u \in Users, c \in AuthCalls, ok \in BOOLEAN :
         AuthorizeAction(u, c, ok) =>
            IF ok /\ PermissionCheckPasses(u, c)
                  /\ WinningAction(u, c) = "require_approval"
            THEN \E id \in DOMAIN approval_queue' \ DOMAIN approval_queue :
                    /\ DOMAIN approval_queue'
                           = DOMAIN approval_queue \cup {id}
                    /\ \A old \in DOMAIN approval_queue :
                           approval_queue'[old] = approval_queue[old]
                    /\ approval_queue'[id].status = "pending"
                    /\ approval_queue'[id].user_id = u
                    /\ ret'.result.authorized = FALSE
                    /\ Reason(ret'.result) = "requires_approval"
                    /\ ret'.result.approval_id = id
            ELSE approval_queue' = approval_queue]_vars

\* C7 witness: the last call returned requires_approval and its request is
\* pending in the queue.
C7_Witness ==
    /\ Returned("authorize_action")
    /\ Reason(RetResult) = "requires_approval"
    /\ RetResult.approval_id \in DOMAIN approval_queue
    /\ approval_queue[RetResult.approval_id].status = "pending"

\* C8: authorize_action returns authorized=true exactly when the permission
\* check passes and the winning policy action is ALLOW, LOG_ONLY or REDACT;
\* when the winning action is DENY it returns authorized=false with reason
\* policy_violation and the matched-rule list.
C8_AuthorizedIffAllowedAction ==
    [][\A u \in Users, c \in AuthCalls :
         AuthorizeAction(u, c, TRUE) =>
            /\ ret'.result.authorized
                  <=> /\ PermissionCheckPasses(u, c)
                      /\ WinningAction(u, c) \in {"allow", "log_only", "redact"}
            /\ (PermissionCheckPasses(u, c) /\ WinningAction(u, c) = "deny") =>
                  /\ Reason(ret'.result) = "policy_violation"
                  /\ ret'.result.violations = CallEvaluation(u, c).violations]_vars

\* C8 witness: a call refused for policy_violation by a DENY rule that
\* matched after a LOG_ONLY rule.
C8_Witness ==
    /\ Returned("authorize_action")
    /\ Reason(RetResult) = "policy_violation"
    /\ Len(RetResult.violations) = 2
    /\ RetResult.violations[2].action = "deny"

\* C9: an approval request is resolved exactly once: once its status is
\* approved or denied, no approve_action call changes its status, approver
\* or comments, and such a call reports an error.
C9_ResolvedExactlyOnce ==
    [][\A id \in DOMAIN approval_queue :
         approval_queue[id].status # "pending" =>
            /\ id \in DOMAIN approval_queue'
            /\ approval_queue'[id].status = approval_queue[id].status
            /\ approval_queue'[id].approver_user_id
                   = approval_queue[id].approver_user_id
            /\ approval_queue'[id].comments = approval_queue[id].comments]_vars

\* ------------------------------------------ properties: concurrent approval
\* what thread t wrote, or would write, into the request
ThreadStatus(t) == IF th[t].approved THEN "approved" ELSE "denied"
ThreadWon(t) ==
    LET request == approval_queue[th[t].approval_id]
    IN  /\ th[t].result.success
        /\ request.status = ThreadStatus(t)
        /\ request.approver_user_id = th[t].approver_user_id
        /\ request.comments = th[t].comments

\* C10: of two concurrent approve_action calls on the same pending
\* approval_id, both by approvers holding the approve permission, exactly
\* one succeeds and the other fails; the request keeps the status, approver
\* and comments the successful call wrote.
C10_ExactlyOneApprovalWins ==
    \A t1, t2 \in ThreadIds :
        ( /\ t1 # t2
          /\ th[t1].pc = "done" /\ th[t2].pc = "done"
          /\ th[t1].approval_id = th[t2].approval_id
          /\ th[t1].pending /\ th[t2].pending )
        => \/ ThreadWon(t1) /\ ~th[t2].result.success
           \/ ThreadWon(t2) /\ ~th[t1].result.success

\* ------------------------------------------ properties: approval and audit
\* C11: approve_action by an approver whose roles do not grant
\* approve_ai_decisions fails: the request keeps its status and gets no
\* approver, and no audit entry is written.
C11_ApproverNeedsPermission ==
    [][\A id \in DOMAIN approval_queue, u \in Users,
          d \in ApprovalDecisions, ok \in BOOLEAN :
         ( /\ ApproveAction(id, u, d.approved, d.comments, ok)
           /\ "approve_ai_decisions" \notin QueryUserPermissions(u) ) =>
            /\ ~ret'.raised
            /\ ret'.result.success = FALSE
            /\ approval_queue' = approval_queue
            /\ audit_logs' = audit_logs]_vars

\* C11 witness: ann, a viewer, was refused while a request is pending with
\* no approver recorded.
C11_Witness ==
    /\ Returned("approve_action")
    /\ RetResult.message = "Insufficient permissions to approve"
    /\ \E id \in DOMAIN approval_queue :
           /\ approval_queue[id].status = "pending"
           /\ "approver_user_id" \notin DOMAIN approval_queue[id]

\* C12: when the audit write of an authorize_action call fails, the call
\* raises: it returns no result (so never authorized=true), the approval
\* queue gets no new request and the audit log is as before.
C12_FailClosedOnAuditFailure ==
    [][\A u \in Users, c \in AuthCalls :
         AuthorizeAction(u, c, FALSE) =>
            /\ ret'.raised
            /\ ret'.result = NoResult
            /\ approval_queue' = approval_queue
            /\ audit_logs' = audit_logs]_vars

\* C12 witness: a call that passed the permission check and evaluated the
\* policies raised at its audit write.
C12_Witness ==
    /\ ret.op = "authorize_action"
    /\ ret.raised
    /\ ret.evaluated

\* ------------------------------------------------------- properties: RBAC
\* the permissions role r grants in the RolePermission table
RolePerms(r) == { rp[2] : rp \in { x \in role_permissions : x[1] = r } }

\* C13: get_user_permissions(u) returns exactly the permissions of the
\* roles assigned to u at the time of the call, whatever assign_role,
\* revoke_role and get_user_permissions calls came before and whatever the
\* cache held before them; right after assign_role(u, r) the result
\* includes r's permissions.
C13_NoStaleGrant ==
    [][\A u \in Users :
         GetUserPermissionsCall(u) =>
            /\ ret'.result = QueryUserPermissions(u)
            /\ (ret'.after.op = "assign_role" /\ <<u, ret.role_id>> \in user_roles) =>
                   RolePerms(ret.role_id) \cap AllPermissions
                       \subseteq ret'.result]_vars

\* C13 witness: get_user_permissions(u) right after a revoke_role(u, r)
\* that removed a row while a cache entry for u younger than the TTL
\* existed, u still holding another role.
C13_Witness ==
    /\ ret.op = "get_user_permissions"
    /\ ret.after.op = "revoke_role"
    /\ ret.after.changed
    /\ ret.after.cached
    /\ ret.result # {}

\* C14: assign_role on a pair that is already assigned changes no UserRole
\* row, leaves both caches untouched and returns the existing assignment
\* without error; on a pair not yet assigned to an existing role it adds
\* the one row and drops the user's cache entry.
C14_AssignRoleIdempotent ==
    [][\A u \in Users, r \in CalledRoles, fk \in BOOLEAN :
         AssignRole(u, r, fk) =>
            /\ <<u, r>> \in user_roles =>
                  /\ user_roles' = user_roles
                  /\ permission_cache' = permission_cache
                  /\ cache_timestamps' = cache_timestamps
                  /\ ret'.existing
                  /\ ~ret'.raised
            /\ (<<u, r>> \notin user_roles /\ r \in roles) =>
                  /\ user_roles' = user_roles \cup {<<u, r>>}
                  /\ u \notin DOMAIN permission_cache'
                  /\ u \notin DOMAIN cache_timestamps'
                  /\ ~ret'.existing]_vars

\* C14 witness: a second assign_role of the same pair returned the existing
\* assignment and the user's cache entry is still there.
C14_Witness ==
    /\ ret.op = "assign_role"
    /\ ret.existing
    /\ ret.cached
    /\ ret.user_id \in DOMAIN permission_cache
    /\ <<ret.user_id, ret.role_id>> \in user_roles

\* C15: assign_role with a role_id that names no role signals an error,
\* adds no UserRole row and drops no cache entry.
C15_UnknownRoleIsNotFound ==
    [][\A u \in Users, r \in CalledRoles, fk \in BOOLEAN :
         (AssignRole(u, r, fk) /\ r \notin roles) =>
            /\ ret'.raised
            /\ user_roles' = user_roles
            /\ permission_cache' = permission_cache
            /\ cache_timestamps' = cache_timestamps]_vars

\* C16: constructing a manager creates each default role, with its
\* permission rows, only when no role has its id; a role that exists keeps
\* its permission rows, and a second or later construction changes neither
\* table.
C16_BootstrapIdempotent ==
    [][RBACManagerInit =>
         LET again == InitializeDefaultRoles(roles', role_permissions')
         IN  /\ roles \subseteq roles'
             /\ roles' \subseteq roles \cup DOMAIN default_roles
             /\ ~ret'.raised => roles' = roles \cup DOMAIN default_roles
             /\ \A r \in roles :
                    { rp \in role_permissions' : rp[1] = r }
                        = { rp \in role_permissions : rp[1] = r }
             /\ \A r \in roles' \ roles :
                    { rp[2] : rp \in { x \in role_permissions' : x[1] = r } }
                        = default_roles[r]
             /\ again.roles = roles'
             /\ again.role_permissions = role_permissions'
             /\ engine = "ready" =>
                    /\ roles' = roles
                    /\ role_permissions' = role_permissions]_vars

\* C16 witness: a second construction over a store whose viewer role was
\* set up by hand; the role still has its own permissions and not the
\* default ones.
C16_Witness ==
    /\ ret.op = "rbac_init"
    /\ ~ret.first
    /\ RolePerms("viewer") = {"read_leads", "export_data"}
    /\ RolePerms("admin") = AllPermissions

\* ------------------------------------------- properties: default policies
\* the places <<type, index>> of the rules with a rule_id in the lists pol
RulePlaces(pol, id) ==
    { ti \in UNION { { <<t, i>> : i \in DOMAIN pol[t] } : t \in DOMAIN pol } :
          pol[ti[1]][ti[2]].rule_id = id }

\* the lists right after _load_policies, before the defaults are merged in
Loaded == LoadPolicies(stored_policies)

\* loaded rules are neither replaced nor removed nor moved by the merge
LoadedRulesKept ==
    \A t \in DOMAIN Loaded :
        /\ t \in DOMAIN policies
        /\ Len(policies[t]) >= Len(Loaded[t])
        /\ SubSeq(policies[t], 1, Len(Loaded[t])) = Loaded[t]

\* a default rule is in the lists as the default only when no loaded rule
\* has its rule_id, and then once, in the list of its own type
DefaultAddedIfAbsent(d) ==
    IF RulePlaces(Loaded, d.rule_id) = {}
    THEN /\ Cardinality(RulePlaces(policies, d.rule_id)) = 1
         /\ \A ti \in RulePlaces(policies, d.rule_id) :
                /\ ti[1] = d.policy_type
                /\ policies[ti[1]][ti[2]] = d
    ELSE RulePlaces(policies, d.rule_id) = RulePlaces(Loaded, d.rule_id)

\* C17: after construction the loaded rules are kept, a default is added
\* only when no loaded rule has its rule_id, and every default rule_id is
\* present exactly once: as the loaded rule where storage held one, as the
\* default otherwise.
C17_DefaultsMergedExactlyOnce ==
    engine = "ready" =>
        /\ LoadedRulesKept
        /\ \A k \in DOMAIN default_policies :
               /\ DefaultAddedIfAbsent(default_policies[k])
               /\ Cardinality(RulePlaces(policies,
                                         default_policies[k].rule_id)) = 1

\* C17 witness: storage held its own data_access_own_leads rule; after
\* construction it is the only rule of that id and the other defaults were
\* added.
C17_Witness ==
    /\ engine = "ready"
    /\ Cardinality(RulePlaces(Loaded, "data_access_own_leads")) = 1
    /\ \A ti \in RulePlaces(policies, "data_access_own_leads") :
           policies[ti[1]][ti[2]].action = "log_only"
    /\ Cardinality(RulePlaces(policies, "pii_redaction")) = 1

\* ------------------------------------------------- properties: workflows
\* the task of the execution started: the run is under way or over
WfRunning == wf.pc \notin {"idle", "scheduled"}
\* the steps that were started: marked running and handed to the executor
WfStarted == { id \in DOMAIN wf.step_status : wf.step_status[id] # "pending" }

\* C18: a step that was started has every step id of its dependencies in
\* completed_steps: no step starts before its dependencies completed.
C18_StartsAfterDependencies ==
    WfRunning =>
        \A id \in WfStarted :
            \A i \in DOMAIN StepOf(wf.steps, id).dependencies :
                StepOf(wf.steps, id).dependencies[i] \in wf.completed_steps

\* C18 witness: b, listed before the step a it depends on, is running and
\* a is completed.
C18_Witness ==
    /\ WfRunning
    /\ wf.steps # <<>>
    /\ wf.steps[1].id = "b"
    /\ wf.steps[1].dependencies = <<"a">>
    /\ wf.step_status["b"] = "running"
    /\ "a" \in wf.completed_steps

\* C19: once a step is in failed_steps no further step of the execution is
\* started, and the execution ends with status failed.
C19_FailureStopsTheLoop ==
    WfRunning =>
        /\ wf.pc = "await" => wf.failed_steps = {}
        /\ (wf.pc = "done" /\ wf.failed_steps # {}) => wf.status = "failed"

\* C20: only a step whose executor reported success is in completed_steps;
\* a step whose executor returned success=false is in failed_steps and
\* makes no dependent ready.
C20_CompletedOnlyOnSuccess ==
    WfRunning =>
        /\ \A id \in wf.completed_steps : wf.result[id] = "success"
        /\ \A id \in DOMAIN wf.result :
               wf.result[id] = "unsuccessful" => id \in wf.failed_steps

\* the ids of the steps of the workflow that runs
WfStepIds == { wf.steps[i].id : i \in DOMAIN wf.steps }

\* C21: a step that declares a condition {step: S, result: True} is not
\* started when S completed with its condition evaluating to false, and so
\* ends in neither completed_steps nor failed_steps
C21_ConditionGatesStep ==
    WfRunning =>
        \A id \in WfStarted \cup wf.completed_steps \cup wf.failed_steps :
            \A i \in DOMAIN StepOf(wf.steps, id).conditions :
                LET condition == StepOf(wf.steps, id).conditions[i]
                IN  ~ /\ condition.result = TRUE
                      /\ wf.condition_met[condition.step] = "false"

\* C22: a run that stops with steps remaining, none of them ready, and no
\* failed step ends paused
C22_BlockedRunIsPaused ==
    (WfRunning /\ wf.pc = "done" /\ wf.remaining_steps # {}
        /\ wf.failed_steps = {}) => wf.status = "paused"

C22_Witness ==
    /\ wf.pc = "done"
    /\ wf.remaining_steps = {"b"}
    /\ wf.failed_steps = {}
    /\ wf.completed_steps = {"a"}
    /\ wf.status = "paused"

\* C23: the final status is completed exactly when no step remains and no
\* step failed, which is when every step is in completed_steps and
\* failed_steps is empty
C23_CompletedIffAllStepsCompleted ==
    (WfRunning /\ wf.pc = "done") =>
        /\ wf.status = "completed"
             <=> (wf.remaining_steps = {} /\ wf.failed_steps = {})
        /\ wf.status = "completed"
             <=> (wf.completed_steps = WfStepIds /\ wf.failed_steps = {})

C23_Witness ==
    /\ wf.pc = "done"
    /\ wf.status = "completed"
    /\ wf.completed_steps = {"a", "b", "c"}

\* a step with timeout_seconds set whose executor call ended in a
\* TimeoutError
TimedOut(id) ==
    /\ wf.exception[id] = "TimeoutError"
    /\ StepOf(wf.steps, id).timeout_seconds # 0

\* C24: a step with timeout_seconds set whose executor call timed out is
\* marked failed with the timeout error, and the execution ends failed
C24_TimeoutMarksFailed ==
    WfRunning =>
        /\ \A id \in DOMAIN wf.exception :
               TimedOut(id) =>
                   /\ wf.step_status[id] = "failed"
                   /\ wf.error[id] = "Step execution timed out"
                   /\ id \in wf.failed_steps
        /\ (wf.pc = "done" /\ \E id \in DOMAIN wf.exception : TimedOut(id))
               => wf.status = "failed"

\* the executions that handle_event started
WxExecutions == IF wx.pc = "idle" THEN {} ELSE DOMAIN wx.executions

\* C25: what a step of one execution merged into its context.data is in no
\* other execution's context.data, and not in the event data of the caller
C25_ContextsAreIndependent ==
    /\ \A e1 \in WxExecutions, e2 \in WxExecutions :
           e1 # e2 =>
               \A key \in DOMAIN wx.dicts[wx.executions[e2].data] :
                   wx.dicts[wx.executions[e2].data][key] # e1
    /\ wx.pc # "idle" => DOMAIN wx.dicts["event_data"] = {}

\* C26: the status and result of a step as one execution left them are not
\* overwritten by another execution of the same definition
C26_StepStateIsPerExecution ==
    \A e \in WxExecutions :
        LET x == wx.executions[e]
        IN  /\ \A id \in x.completed_steps :
                   wx.step[<<x.workflow_id, id>>].status = "completed"
            /\ \A id \in x.failed_steps :
                   wx.step[<<x.workflow_id, id>>].status = "failed"
            /\ x.pc = "await" =>
                   wx.step[<<x.workflow_id, x.current_step>>].status
                       = "running"

\* C27: completed_steps and failed_steps are disjoint sets of step ids of
\* the definition, and no step has its executor called more than once
C27_StepsFiledOnceRunOnce ==
    WfRunning =>
        /\ wf.completed_steps \cap wf.failed_steps = {}
        /\ wf.completed_steps \subseteq WfStepIds
        /\ wf.failed_steps \subseteq WfStepIds
        /\ \A id \in WfStepIds : wf.calls[id] <= 1
        /\ \A id \in wf.completed_steps \cup wf.failed_steps :
               id \notin wf.remaining_steps /\ wf.calls[id] = 1

C27_Witness ==
    /\ wf.pc = "done"
    /\ wf.completed_steps = {"a", "c"}
    /\ wf.failed_steps = {"b"}
    /\ wf.remaining_steps = {}

\* C28: a request has status approved or denied only if an AI_DECISION
\* audit entry for its approval_id was recorded; after an approve_action
\* whose audit write failed, no request is resolved without such an entry
C28_ResolvedRequestIsAudited ==
    \A id \in DOMAIN approval_queue :
        approval_queue[id].status \in {"approved", "denied"} =>
            \E i \in DOMAIN audit_logs :
                /\ audit_logs[i].event_type = "ai_decision"
                /\ audit_logs[i].details.approval_id = id

\* the run is over: _execute_workflow returned, or an exception left it
WfOver == wf.pc \in {"done", "raised"}

\* C29: a run whose executors all return or raise comes to its end, and at
\* its end the status is completed, failed or paused, completed_at is set
\* and its id is out of running_executions; the id is in running_executions
\* exactly while the run is in progress. A run whose executor raises
\* asyncio.CancelledError ends active, with no completed_at
C29_RunTerminatesAndIsFiled ==
    /\ [](WfRunning =>
            /\ WfOver =>
                   /\ wf.status \in {"completed", "failed", "paused"}
                   /\ wf.completed_at # "none"
            /\ wf.id \in wf.running_executions <=> ~WfOver)
    /\ [](wf.pc = "scheduled" => wf.id \notin wf.running_executions)
    /\ (WfRunning ~> WfOver)

\* the first step of the workflow whose result requires approval or whose
\* execution raises, 0 if there is none
FirstStop(workflow_steps) ==
    LET stops == { i \in DOMAIN workflow_steps :
                       \/ RequiresApprovalOf(workflow_steps[i])
                       \/ StepRaises(workflow_steps[i]) }
    IN  IF stops = {} THEN 0
        ELSE CHOOSE i \in stops : \A j \in stops : i <= j

\* C30: act executes the steps in list order up to and including the first
\* step that requires approval or raises and no step after it; it returns
\* waiting_approval or failed for such a step and completed when there is
\* none; steps_completed + steps_failed is at most the number of steps
C30_ActStopsAtFirstStop ==
    orch.pc = "done" =>
        LET stop == FirstStop(orch.workflow_steps)
            last == IF stop = 0 THEN Len(orch.workflow_steps) ELSE stop
        IN  /\ orch.raised = "none"
            /\ orch.executed =
                   [i \in 1..last |-> orch.workflow_steps[i].step_id]
            /\ orch.execution_results.status =
                   IF stop = 0 THEN "completed"
                   ELSE IF StepRaises(orch.workflow_steps[stop])
                        THEN "failed" ELSE "waiting_approval"
            /\ orch.execution_results.steps_completed
                   + orch.execution_results.steps_failed
                       <= Len(orch.workflow_steps)

====
